---------------------------- MODULE Spec2Model ----------------------------
(***************************************************************************)
(* Streaming tool-call reconstruction (vllm/v1/engine/                     *)
(* streaming_tool_parser.py): the StreamingToolParser state machine, its   *)
(* per-request / per-index accumulators and the emit-once rule.            *)
(*                                                                         *)
(* Python strings are sequences of one-character strings, dicts are        *)
(* functions whose DOMAIN is the set of keys present, Optional[...] values *)
(* carry an explicit none marker.                                          *)
(***************************************************************************)
EXTENDS Integers, Sequences, FiniteSets, TLC

VARIABLES
    chunks_mapping,         \* request_id -> list of DeltaMessage
    tool_states,            \* request_id -> tool index -> accumulator
    yielded_indices,        \* request_id -> set of tool indices
    accumulated_text,       \* request_id -> decoded text
    accumulated_token_ids,  \* request_id -> list of token ids
    last,                   \* the call the host made last, what it passed and got back
    completed,              \* per (request, index): ToolCalls returned since the last reset
    solo,                   \* reference parsers that see one key's operations only
    script,                 \* the scripted fragments of the scenario specifications
    seq_group,              \* the SequenceGroup the sequence hook works on
    seq_counter,            \* the engine's sequence id Counter
    collector,              \* the RequestOutputCollector of one request
    handoff,                \* the producer's puts, the consumer's position and what it got
    seq_parser,             \* the StreamingToolParser keyed by sequence id
    request_state,          \* the ToolAwareRequestState of one request
    output_processor        \* the OutputProcessor: the requests it tracks

vars == <<chunks_mapping, tool_states, yielded_indices, accumulated_text,
          accumulated_token_ids, last, completed, solo, script,
          seq_group, seq_counter, collector, handoff,
          seq_parser, request_state, output_processor>>

\* The part of the state the tool parser never touches.
hook_vars == <<seq_group, seq_counter, collector, handoff,
               seq_parser, request_state, output_processor>>

---------------------------------------------------------------------------
(* Bounds *)

MaxArgsLen == 2     \* longest accumulated arguments text
MaxBatch == 2       \* most DeltaToolCalls in one DeltaMessage

---------------------------------------------------------------------------
(* Values *)

None == "None"
NoneStr == <<None>>                 \* Optional[str] = None, for strings held as sequences
EmptyStr == <<>>

AllRequests == {"A", "B"}
AllIndices == {0, 1}

Put(d, k, v) == [x \in (DOMAIN d) \cup {k} |-> IF x = k THEN v ELSE d[x]]
Pop(d, k) == [x \in (DOMAIN d) \ {k} |-> d[x]]
EmptyDict == [x \in {} |-> 0]

NoFunction == [is_none |-> TRUE, name |-> None, arguments |-> NoneStr]
DeltaFunctionCall(name, arguments) ==
    [is_none |-> FALSE, name |-> name, arguments |-> arguments]
DeltaToolCall(index, id, type, function) ==
    [index |-> index, id |-> id, type |-> type, function |-> function]
DeltaMessage(tool_calls) == [tool_calls |-> tool_calls]

ToolCall(id, type, name, arguments) ==
    [id |-> id, type |-> type,
     function |-> [name |-> name, arguments |-> arguments]]

NoResult == [is_none |-> TRUE, tool_calls |-> <<>>]
SomeResult(tool_calls) == [is_none |-> FALSE, tool_calls |-> tool_calls]

---------------------------------------------------------------------------
(* StreamingToolParser *)

NewParser ==
    [chunks_mapping |-> EmptyDict, tool_states |-> EmptyDict,
     yielded_indices |-> EmptyDict, accumulated_text |-> EmptyDict,
     accumulated_token_ids |-> EmptyDict]

Parser ==
    [chunks_mapping |-> chunks_mapping, tool_states |-> tool_states,
     yielded_indices |-> yielded_indices, accumulated_text |-> accumulated_text,
     accumulated_token_ids |-> accumulated_token_ids]

\* The assignment without its "if key not in dict" test.
SetDefaultOverwrite(d, k, v) == Put(d, k, v)

SetDefault(d, k, v) == IF k \in DOMAIN d THEN d ELSE Put(d, k, v)

InitializeRequestState(p, request_id) ==
    [chunks_mapping |-> SetDefault(p.chunks_mapping, request_id, <<>>),
     tool_states |-> SetDefault(p.tool_states, request_id, EmptyDict),
     yielded_indices |-> SetDefault(p.yielded_indices, request_id, {}),
     accumulated_text |-> SetDefault(p.accumulated_text, request_id, EmptyStr),
     accumulated_token_ids |-> SetDefault(p.accumulated_token_ids, request_id, <<>>)]

NewToolState ==
    [id |-> None, type |-> None, function_name |-> None,
     arguments |-> EmptyStr, brace_count |-> 0]

\* A scan whose closing-brace branch never fires.
RECURSIVE CountBracesOpenOnly(_, _, _)
CountBracesOpenOnly(brace_count, new_args, k) ==
    IF k > Len(new_args) THEN brace_count
    ELSE CountBracesOpenOnly(IF new_args[k] = "{" THEN brace_count + 1 ELSE brace_count,
                             new_args, k + 1)

RECURSIVE CountBraces(_, _, _)
CountBraces(brace_count, new_args, k) ==
    IF k > Len(new_args) THEN brace_count
    ELSE CountBraces(IF new_args[k] = "{" THEN brace_count + 1
                     ELSE IF new_args[k] = "}" THEN brace_count - 1
                     ELSE brace_count,
                     new_args, k + 1)

\* "=" written for "+=": the increment replaces the accumulated text.
AppendArgumentsAssign(state, new_args) ==
    [state EXCEPT !.arguments = new_args,
                  !.brace_count = CountBraces(state.brace_count, new_args, 1)]

AppendArguments(state, new_args) ==
    [state EXCEPT !.arguments = state.arguments \o new_args,
                  !.brace_count = CountBraces(state.brace_count, new_args, 1)]

UpdateFunction(state, function) ==
    LET named == IF function.name # None
                 THEN [state EXCEPT !.function_name = function.name]
                 ELSE state
    IN  IF function.arguments # NoneStr
        THEN AppendArguments(named, function.arguments)
        ELSE named

\* The "is not None" tests on id and type left out: a fragment without them
\* writes None over the stored values.
UpdateStateOverwrite(state, tool_call) ==
    LET s2 == [state EXCEPT !.id = tool_call.id, !.type = tool_call.type]
    IN  IF ~tool_call.function.is_none THEN UpdateFunction(s2, tool_call.function) ELSE s2

\* "set once": id and type are written only while they are still unset, the
\* first value wins.
UpdateStateFirstWins(state, tool_call) ==
    LET s1 == IF tool_call.id # None /\ state.id = None
              THEN [state EXCEPT !.id = tool_call.id] ELSE state
        s2 == IF tool_call.type # None /\ s1.type = None
              THEN [s1 EXCEPT !.type = tool_call.type] ELSE s1
    IN  IF ~tool_call.function.is_none THEN UpdateFunction(s2, tool_call.function) ELSE s2

UpdateState(state, tool_call) ==
    LET s1 == IF tool_call.id # None THEN [state EXCEPT !.id = tool_call.id] ELSE state
        s2 == IF tool_call.type # None THEN [s1 EXCEPT !.type = tool_call.type] ELSE s1
    IN  IF ~tool_call.function.is_none THEN UpdateFunction(s2, tool_call.function) ELSE s2

\* The "'{' in arguments" test left out.
ArgumentsCompleteAnyText(state) ==
    /\ state.brace_count = 0
    /\ state.arguments # EmptyStr

\* startswith('{') written for '{' in arguments.
ArgumentsCompleteStartsWith(state) ==
    /\ state.brace_count = 0
    /\ state.arguments # EmptyStr
    /\ state.arguments[1] = "{"

ArgumentsComplete(state) ==
    /\ state.brace_count = 0
    /\ state.arguments # EmptyStr
    /\ \E k \in 1..Len(state.arguments) : state.arguments[k] = "{"

\* The yielded_indices test left out.
ReadyToYieldAgain(index, state, yielded) ==
    /\ state.id # None
    /\ state.type # None
    /\ state.function_name # None
    /\ ArgumentsComplete(state)

\* The type test left out.
ReadyToYieldNoType(index, state, yielded) ==
    /\ index \notin yielded
    /\ state.id # None
    /\ state.function_name # None
    /\ ArgumentsComplete(state)

\* The yielded set tested for emptiness, not for the index.
ReadyToYieldFirstOnly(index, state, yielded) ==
    /\ yielded = {}
    /\ state.id # None
    /\ state.type # None
    /\ state.function_name # None
    /\ ArgumentsComplete(state)

ReadyToYield(index, state, yielded) ==
    /\ index \notin yielded
    /\ state.id # None
    /\ state.type # None
    /\ state.function_name # None
    /\ ArgumentsComplete(state)

\* "continue" at the top of the loop for an index already yielded: its
\* later fragments are dropped.
ProcessToolCallFrozen(acc, tool_call) ==
    LET index == tool_call.index
        ts0 == IF index \notin DOMAIN acc.tool_state
               THEN Put(acc.tool_state, index, NewToolState)
               ELSE acc.tool_state
        state == UpdateState(ts0[index], tool_call)
        ts1 == [ts0 EXCEPT ![index] = state]
    IN  IF index \in acc.yielded_indices THEN acc
        ELSE IF ReadyToYield(index, state, acc.yielded_indices)
        THEN [tool_state |-> ts1,
              yielded_indices |-> acc.yielded_indices \cup {index},
              tool_calls |-> Append(acc.tool_calls,
                  ToolCall(state.id, state.type, state.function_name, state.arguments)),
              emit_index |-> Append(acc.emit_index, index)]
        ELSE [acc EXCEPT !.tool_state = ts1]

\* One dict object shared by the accumulators of all indices: an update
\* through one index shows through every other.
ProcessToolCallShared(acc, tool_call) ==
    LET index == tool_call.index
        ts0 == IF index \notin DOMAIN acc.tool_state
               THEN Put(acc.tool_state, index, NewToolState)
               ELSE acc.tool_state
        state == UpdateState(ts0[index], tool_call)
        ts1 == [i \in DOMAIN ts0 |-> state]
    IN  IF ReadyToYield(index, state, acc.yielded_indices)
        THEN [tool_state |-> ts1,
              yielded_indices |-> acc.yielded_indices \cup {index},
              tool_calls |-> Append(acc.tool_calls,
                  ToolCall(state.id, state.type, state.function_name, state.arguments)),
              emit_index |-> Append(acc.emit_index, index)]
        ELSE [acc EXCEPT !.tool_state = ts1]

\* One iteration of the loop over delta.tool_calls.  acc carries the loop's
\* locals: tool_state, yielded_indices, tool_calls, and emit_index, the index
\* each appended ToolCall was built for (a ToolCall itself carries none).
ProcessToolCall(acc, tool_call) ==
    LET index == tool_call.index
        ts0 == IF index \notin DOMAIN acc.tool_state
               THEN Put(acc.tool_state, index, NewToolState)
               ELSE acc.tool_state
        state == UpdateState(ts0[index], tool_call)
        ts1 == [ts0 EXCEPT ![index] = state]
    IN  IF ReadyToYield(index, state, acc.yielded_indices)
        THEN [tool_state |-> ts1,
              yielded_indices |-> acc.yielded_indices \cup {index},
              tool_calls |-> Append(acc.tool_calls,
                  ToolCall(state.id, state.type, state.function_name, state.arguments)),
              emit_index |-> Append(acc.emit_index, index)]
        ELSE [acc EXCEPT !.tool_state = ts1]

\* The loop with the readiness check moved after it: every fragment is applied
\* first, then each index of the batch is checked once, in order of first touch.
ApplyToolCall(acc, tool_call) ==
    LET index == tool_call.index
        ts0 == IF index \notin DOMAIN acc.tool_state
               THEN Put(acc.tool_state, index, NewToolState)
               ELSE acc.tool_state
    IN  [acc EXCEPT !.tool_state = [ts0 EXCEPT ![index] = UpdateState(ts0[index], tool_call)]]

RECURSIVE ApplyToolCalls(_, _, _)
ApplyToolCalls(acc, tool_calls, k) ==
    IF k > Len(tool_calls) THEN acc
    ELSE ApplyToolCalls(ApplyToolCall(acc, tool_calls[k]), tool_calls, k + 1)

RECURSIVE YieldTouched(_, _, _)
YieldTouched(acc, tool_calls, k) ==
    IF k > Len(tool_calls) THEN acc
    ELSE LET index == tool_calls[k].index
             state == acc.tool_state[index]
         IN  IF ReadyToYield(index, state, acc.yielded_indices)
             THEN YieldTouched(
                      [acc EXCEPT !.yielded_indices = @ \cup {index},
                                  !.tool_calls = Append(@,
                                      ToolCall(state.id, state.type,
                                               state.function_name, state.arguments)),
                                  !.emit_index = Append(@, index)],
                      tool_calls, k + 1)
             ELSE YieldTouched(acc, tool_calls, k + 1)

ProcessToolCallsAtEnd(acc, tool_calls, k) ==
    YieldTouched(ApplyToolCalls(acc, tool_calls, k), tool_calls, k)

RECURSIVE ProcessToolCalls(_, _, _)
ProcessToolCalls(acc, tool_calls, k) ==
    IF k > Len(tool_calls) THEN acc
    ELSE ProcessToolCalls(ProcessToolCall(acc, tool_calls[k]), tool_calls, k + 1)

\* "return tool_calls" without the "else None".
ReturnToolCallsAlways(tool_calls) == SomeResult(tool_calls)

ReturnToolCalls(tool_calls) ==
    IF tool_calls # <<>> THEN SomeResult(tool_calls) ELSE NoResult

\* get_tool_calls_from_deltas: the parser after the call, what it returns, and
\* the index of each returned ToolCall.
GetToolCallsFromDeltas(p, request_id, delta) ==
    LET p0 == InitializeRequestState(p, request_id)
    IN  IF delta.tool_calls = <<>>
        THEN [parser |-> p0, result |-> NoResult, emit_index |-> <<>>]
        ELSE LET acc == ProcessToolCalls(
                     [tool_state |-> p0.tool_states[request_id],
                      yielded_indices |-> p0.yielded_indices[request_id],
                      tool_calls |-> <<>>, emit_index |-> <<>>],
                     delta.tool_calls, 1)
             IN  [parser |-> [p0 EXCEPT
                                 !.tool_states[request_id] = acc.tool_state,
                                 !.yielded_indices[request_id] = acc.yielded_indices],
                  result |-> ReturnToolCalls(acc.tool_calls),
                  emit_index |-> acc.emit_index]

\* clear_request_state without the pop on yielded_indices.
ClearRequestStateKeepYielded(p, request_id) ==
    [chunks_mapping |-> Pop(p.chunks_mapping, request_id),
     tool_states |-> Pop(p.tool_states, request_id),
     yielded_indices |-> p.yielded_indices,
     accumulated_text |-> Pop(p.accumulated_text, request_id),
     accumulated_token_ids |-> Pop(p.accumulated_token_ids, request_id)]

\* clear() on the whole dicts written for pop(request_id).
ClearRequestStateAll(p, request_id) == NewParser

ClearRequestState(p, request_id) ==
    [chunks_mapping |-> Pop(p.chunks_mapping, request_id),
     tool_states |-> Pop(p.tool_states, request_id),
     yielded_indices |-> Pop(p.yielded_indices, request_id),
     accumulated_text |-> Pop(p.accumulated_text, request_id),
     accumulated_token_ids |-> Pop(p.accumulated_token_ids, request_id)]

\* Optional[DeltaMessage]
NoDelta == [is_none |-> TRUE, message |-> DeltaMessage(<<>>)]
SomeDelta(message) == [is_none |-> FALSE, message |-> message]

\* What one call of tool_parser.extract_tool_calls_streaming does: it raises
\* TypeError, or returns a DeltaMessage or None.
Extraction(raises_type_error, returns) ==
    [raises_type_error |-> raises_type_error, returns |-> returns]

\* anytokenizer.decode(token_ids, skip_special_tokens=True): token 0 is a
\* special token and decodes to nothing.
TokenText(t) ==
    CASE t = 0 -> <<>>
      [] t = 1 -> <<"{">>
      [] t = 2 -> <<"}">>
      [] OTHER -> <<"a">>

RECURSIVE Decode(_)
Decode(token_ids) ==
    IF token_ids = <<>> THEN <<>>
    ELSE TokenText(Head(token_ids)) \o Decode(Tail(token_ids))

\* update_from_engine_output with an except branch that substitutes an empty
\* DeltaMessage for the failed extraction.
UpdateFromEngineOutputEmptyOnError(p, request_id, new_token_ids, extraction) ==
    LET p0 == InitializeRequestState(p, request_id)
    IN  IF new_token_ids = <<>>
        THEN [parser |-> p0, delta_message |-> NoDelta]
        ELSE LET p1 == [p0 EXCEPT
                           !.accumulated_text[request_id] = @ \o Decode(new_token_ids),
                           !.accumulated_token_ids[request_id] = @ \o new_token_ids]
                 delta_message == IF extraction.raises_type_error
                                  THEN SomeDelta(DeltaMessage(<<>>))
                                  ELSE extraction.returns
             IN  [parser |-> IF ~delta_message.is_none
                             THEN [p1 EXCEPT !.chunks_mapping[request_id] =
                                                 Append(@, delta_message.message)]
                             ELSE p1,
                  delta_message |-> delta_message]

\* update_from_engine_output storing the step's text and tokens in place of
\* the accumulated ones.
UpdateFromEngineOutputReplace(p, request_id, new_token_ids, extraction) ==
    LET p0 == InitializeRequestState(p, request_id)
    IN  IF new_token_ids = <<>>
        THEN [parser |-> p0, delta_message |-> NoDelta]
        ELSE LET p1 == [p0 EXCEPT
                           !.accumulated_text[request_id] = Decode(new_token_ids),
                           !.accumulated_token_ids[request_id] = new_token_ids]
                 delta_message == IF extraction.raises_type_error
                                  THEN NoDelta
                                  ELSE extraction.returns
             IN  [parser |-> IF ~delta_message.is_none
                             THEN [p1 EXCEPT !.chunks_mapping[request_id] =
                                                 Append(@, delta_message.message)]
                             ELSE p1,
                  delta_message |-> delta_message]

\* update_from_engine_output without the early return on an empty token list.
UpdateFromEngineOutputNoEarlyReturn(p, request_id, new_token_ids, extraction) ==
    LET p0 == InitializeRequestState(p, request_id)
        p1 == [p0 EXCEPT !.accumulated_text[request_id] = @ \o Decode(new_token_ids),
                         !.accumulated_token_ids[request_id] = @ \o new_token_ids]
        delta_message == IF extraction.raises_type_error
                         THEN NoDelta
                         ELSE extraction.returns
    IN  [parser |-> IF ~delta_message.is_none
                    THEN [p1 EXCEPT !.chunks_mapping[request_id] =
                                        Append(@, delta_message.message)]
                    ELSE p1,
         delta_message |-> delta_message]

\* update_from_engine_output: the parser after the call and the DeltaMessage
\* (or None) it returns.
UpdateFromEngineOutput(p, request_id, new_token_ids, extraction) ==
    LET p0 == InitializeRequestState(p, request_id)
    IN  IF new_token_ids = <<>>
        THEN [parser |-> p0, delta_message |-> NoDelta]
        ELSE LET delta_text == Decode(new_token_ids)
                 previous_text == p0.accumulated_text[request_id]
                 previous_token_ids == p0.accumulated_token_ids[request_id]
                 current_text == previous_text \o delta_text
                 current_token_ids == previous_token_ids \o new_token_ids
                 p1 == [p0 EXCEPT !.accumulated_text[request_id] = current_text,
                                  !.accumulated_token_ids[request_id] = current_token_ids]
                 delta_message == IF extraction.raises_type_error
                                  THEN NoDelta
                                  ELSE extraction.returns
             IN  [parser |-> IF ~delta_message.is_none
                             THEN [p1 EXCEPT !.chunks_mapping[request_id] =
                                                 Append(@, delta_message.message)]
                             ELSE p1,
                  delta_message |-> delta_message]

\* The fragments handed to get_tool_calls_from_deltas even when the decode
\* step returned None.
ProcessEngineOutputForToolsAlways(p, request_id, new_token_ids, extraction) ==
    LET u == UpdateFromEngineOutput(p, request_id, new_token_ids, extraction)
        g == GetToolCallsFromDeltas(u.parser, request_id, extraction.returns.message)
    IN  [parser |-> g.parser, result |-> g.result, emit_index |-> g.emit_index,
         delta_message |-> u.delta_message]

\* process_engine_output_for_tools: the parser after the call, the list it
\* returns (or None), the index of each returned ToolCall, and the
\* DeltaMessage the decode step produced on the way.
ProcessEngineOutputForTools(p, request_id, new_token_ids, extraction) ==
    LET u == UpdateFromEngineOutput(p, request_id, new_token_ids, extraction)
    IN  IF u.delta_message.is_none
        THEN [parser |-> u.parser, result |-> NoResult, emit_index |-> <<>>,
              delta_message |-> u.delta_message]
        ELSE LET g == GetToolCallsFromDeltas(u.parser, request_id,
                                             u.delta_message.message)
             IN  [parser |-> g.parser, result |-> g.result,
                  emit_index |-> g.emit_index, delta_message |-> u.delta_message]

---------------------------------------------------------------------------
(* Inputs *)

Ids == {"call_1"}
Types == {"function"}
Names == {"get_weather"}
ArgIncrements == {<<"{">>, <<"}">>, <<"a">>, <<"{", "}">>}

\* The fragment shapes the extractor produces for one index: header fields
\* alone, function fields alone, or a whole call at once.
HeaderFragments(i) ==
    {DeltaToolCall(i, id, type, NoFunction) :
        id \in Ids \cup {None}, type \in Types \cup {None}}
FunctionFragments(i) ==
    {DeltaToolCall(i, None, None, DeltaFunctionCall(name, args)) :
        name \in Names \cup {None}, args \in ArgIncrements \cup {NoneStr}}
WholeFragments(i) ==
    {DeltaToolCall(i, id, type, DeltaFunctionCall(name, args)) :
        id \in Ids, type \in Types, name \in Names, args \in ArgIncrements}
Fragments(i) == HeaderFragments(i) \cup FunctionFragments(i) \cup WholeFragments(i)

\* The text a fragment appends to its index.
Appended(tool_call) ==
    IF tool_call.function.is_none \/ tool_call.function.arguments = NoneStr
    THEN 0
    ELSE Len(tool_call.function.arguments)

\* The room left under the bound for the arguments text of each index.
Room(p, request_id, n) ==
    [i \in AllIndices |->
        IF request_id \in DOMAIN p.tool_states /\ i \in DOMAIN p.tool_states[request_id]
        THEN n - Len(p.tool_states[request_id][i].arguments)
        ELSE n]

\* The batches of at most n fragments of F that append no more than room[i]
\* characters to index i: the inputs that keep every text within the bound.
RECURSIVE Batches(_, _, _)
Batches(F, room, n) ==
    {<<>>} \cup
    (IF n = 0 THEN {}
     ELSE UNION {{<<f>> \o rest :
                     rest \in Batches(F, [room EXCEPT ![f.index] = @ - Appended(f)], n - 1)} :
                 f \in {g \in F : Appended(g) <= room[g.index]}})

Deltas(F, p, request_id, n) ==
    {DeltaMessage(tcs) : tcs \in Batches(F, Room(p, request_id, MaxArgsLen), n)}

---------------------------------------------------------------------------
(* The host loop: it calls one parser operation, then forwards what came   *)
(* back before it calls again.                                             *)

\* RequestOutputCollector.__init__: an empty slot, the ready event clear.
NoOutput == [kind |-> "None", parts |-> <<>>]
NewCollector(aggregate) == [aggregate |-> aggregate, output |-> NoOutput, ready |-> FALSE]
NoHandoff == [puts |-> 0, exception_put |-> FALSE, consumer |-> "idle", delivered |-> <<>>]

\* StreamingToolParser.__init__ of vllm/engine/output_processor/
\* streaming_tool_parser.py: three dicts keyed by seq_id.
NewSeqParser ==
    [chunks_mapping |-> EmptyDict, tool_states |-> EmptyDict, yielded_indices |-> EmptyDict]

\* ToolAwareRequestState.__init__; tool_parser tells whether a parser was
\* passed (it is the StreamingToolParser of the model), and returned is a
\* ghost: the ToolCalls process_engine_output has returned since construction
\* or the last clear_tool_state.
ToolAwareRequestState(request_id, tool_parser) ==
    [request_id |-> request_id, tool_parser |-> tool_parser,
     accumulated_tool_calls |-> <<>>, returned |-> <<>>]

\* OutputProcessor.__init__: no request is tracked.
NewOutputProcessor == [request_states |-> EmptyDict]

\* The objects as their constructors leave them.
NewEngineObjects ==
    /\ seq_parser = NewSeqParser
    /\ request_state = ToolAwareRequestState("A", TRUE)
    /\ output_processor = NewOutputProcessor

\* The runs without a collector: it is never used.
NoCollector ==
    /\ collector = NewCollector(FALSE)
    /\ handoff = NoHandoff

\* The runs of the tool parser have no sequence group.
NoSequenceGroup ==
    /\ seq_group = [seqs |-> <<>>]
    /\ seq_counter = 0

NoCall ==
    [op |-> "none", request_id |-> None, delta |-> DeltaMessage(<<>>),
     new_token_ids |-> <<>>, extraction |-> Extraction(FALSE, NoDelta),
     pre |-> NewParser,
     result |-> NoResult, emit_index |-> <<>>, delta_message |-> NoDelta]

Idle == last.op = "none"

SetParserInit ==
    /\ chunks_mapping = EmptyDict
    /\ tool_states = EmptyDict
    /\ yielded_indices = EmptyDict
    /\ accumulated_text = EmptyDict
    /\ accumulated_token_ids = EmptyDict

SetParser(p) ==
    /\ chunks_mapping' = p.chunks_mapping
    /\ tool_states' = p.tool_states
    /\ yielded_indices' = p.yielded_indices
    /\ accumulated_text' = p.accumulated_text
    /\ accumulated_token_ids' = p.accumulated_token_ids

\* The ToolCalls of a returned list that were built for index i, in order.
RECURSIVE CallsFor(_, _, _, _)
CallsFor(tool_calls, emit_index, i, k) ==
    IF k > Len(tool_calls) THEN <<>>
    ELSE (IF emit_index[k] = i THEN <<tool_calls[k]>> ELSE <<>>)
         \o CallsFor(tool_calls, emit_index, i, k + 1)

NoScript == [fragments |-> <<>>, fed |-> 0, results |-> <<>>]

NothingCompleted == [r \in AllRequests |-> [i \in AllIndices |-> <<>>]]

\* The host calls get_tool_calls_from_deltas and keeps what it returned.
CallGetToolCallsFromDeltas(request_id, delta) ==
    LET out == GetToolCallsFromDeltas(Parser, request_id, delta)
    IN  /\ Idle
        /\ SetParser(out.parser)
        /\ last' = [NoCall EXCEPT !.op = "get", !.request_id = request_id,
                                  !.delta = delta, !.pre = Parser,
                                  !.result = out.result,
                                  !.emit_index = out.emit_index]
        /\ completed' = [completed EXCEPT ![request_id] =
               [i \in AllIndices |->
                   @[i] \o CallsFor(out.result.tool_calls, out.emit_index, i, 1)]]

\* The state space is kept finite by not feeding text past the bound.
WithinArgsBound(n) ==
    \A r \in DOMAIN tool_states' : \A i \in DOMAIN tool_states'[r] :
        Len(tool_states'[r][i].arguments) <= n

Ingest(request_id, delta) ==
    /\ CallGetToolCallsFromDeltas(request_id, delta)
    /\ WithinArgsBound(MaxArgsLen)
    /\ UNCHANGED <<solo, script>>
    /\ UNCHANGED hook_vars

CallClearRequestState(request_id) ==
    /\ Idle
    /\ SetParser(ClearRequestState(Parser, request_id))
    /\ last' = [NoCall EXCEPT !.op = "clear", !.request_id = request_id,
                              !.pre = Parser]
    /\ completed' = [completed EXCEPT ![request_id] = [i \in AllIndices |-> <<>>]]

\* The host calls update_from_engine_output with the step's new token ids;
\* extraction is what the tool parser does when it is invoked.
CallUpdateFromEngineOutput(request_id, new_token_ids, extraction) ==
    LET out == UpdateFromEngineOutput(Parser, request_id, new_token_ids, extraction)
    IN  /\ Idle
        /\ SetParser(out.parser)
        /\ last' = [NoCall EXCEPT !.op = "update", !.request_id = request_id,
                                  !.new_token_ids = new_token_ids,
                                  !.extraction = extraction, !.pre = Parser,
                                  !.delta_message = out.delta_message]
        /\ UNCHANGED completed

\* The host calls process_engine_output_for_tools and keeps what it returned.
CallProcessEngineOutputForTools(request_id, new_token_ids, extraction) ==
    LET out == ProcessEngineOutputForTools(Parser, request_id, new_token_ids, extraction)
    IN  /\ Idle
        /\ SetParser(out.parser)
        /\ last' = [NoCall EXCEPT !.op = "process", !.request_id = request_id,
                                  !.new_token_ids = new_token_ids,
                                  !.extraction = extraction, !.pre = Parser,
                                  !.result = out.result,
                                  !.emit_index = out.emit_index,
                                  !.delta_message = out.delta_message]
        /\ completed' = [completed EXCEPT ![request_id] =
               [i \in AllIndices |->
                   @[i] \o CallsFor(out.result.tool_calls, out.emit_index, i, 1)]]

Reset(request_id) ==
    /\ CallClearRequestState(request_id)
    /\ UNCHANGED <<solo, script>>
    /\ UNCHANGED hook_vars

Forward ==
    /\ ~Idle
    /\ last' = NoCall
    /\ UNCHANGED <<chunks_mapping, tool_states, yielded_indices, accumulated_text,
                   accumulated_token_ids, completed, solo, script>>
    /\ UNCHANGED hook_vars

Init ==
    /\ NoCollector
    /\ NoSequenceGroup
    /\ SetParserInit
    /\ last = NoCall
    /\ NewEngineObjects
    /\ completed = NothingCompleted
    /\ solo = EmptyDict
    /\ script = NoScript

\* One request, one tool index, every fragment shape.
Next ==
    \/ Idle /\ \E delta \in Deltas(Fragments(0), Parser, "A", MaxBatch) : Ingest("A", delta)
    \/ Reset("A")
    \/ Forward

Spec == Init /\ [][Next]_vars

---------------------------------------------------------------------------
(* Incremental feeding: the fragments of one tool call, one per call.      *)

MaxPieces == 3      \* most argument increments in a script

ScriptIds == {"call_1", "call_2"}
ScriptNames == {"get_weather", "send_email"}

\* id and type, then the name, then the argument pieces.
Scripts ==
    {<<DeltaToolCall(0, id, "function", NoFunction),
       DeltaToolCall(0, None, None, DeltaFunctionCall(name, NoneStr))>> \o pieces :
        id \in ScriptIds, name \in ScriptNames,
        pieces \in UNION {[1..n -> {DeltaToolCall(0, None, None, DeltaFunctionCall(None, a)) :
                                       a \in ArgIncrements}] : n \in 1..MaxPieces}}

InitIncr ==
    /\ NoCollector
    /\ NoSequenceGroup
    /\ SetParserInit
    /\ last = NoCall
    /\ NewEngineObjects
    /\ completed = NothingCompleted
    /\ solo = EmptyDict
    /\ \E fragments \in Scripts :
          script = [fragments |-> fragments, fed |-> 0, results |-> <<>>]

FeedNext ==
    /\ script.fed < Len(script.fragments)
    /\ CallGetToolCallsFromDeltas("A", DeltaMessage(<<script.fragments[script.fed + 1]>>))
    /\ script' = [script EXCEPT !.fed = @ + 1, !.results = Append(@, last'.result)]
    /\ UNCHANGED solo
    /\ UNCHANGED hook_vars

NextIncr ==
    \/ FeedNext
    \/ Forward

SpecIncr == InitIncr /\ [][NextIncr]_vars

---------------------------------------------------------------------------
(* Two tool calls of one request, their fragments interleaved.             *)

MultiMaxBatch == 3  \* most DeltaToolCalls in one DeltaMessage, two-index runs

MultiIndices == {0, 1}
MultiId(i) == IF i = 0 THEN "call_1" ELSE "call_2"
MultiName(i) == IF i = 0 THEN "get_weather" ELSE "send_email"

\* Per index: the call's id, type and name in one fragment, and the braces.
MultiFragments ==
    UNION {{DeltaToolCall(i, MultiId(i), "function",
                          DeltaFunctionCall(MultiName(i), NoneStr)),
            DeltaToolCall(i, None, None, DeltaFunctionCall(None, <<"{">>)),
            DeltaToolCall(i, None, None, DeltaFunctionCall(None, <<"}">>))} :
           i \in MultiIndices}

FragmentsOf(tool_calls, i) == SelectSeq(tool_calls, LAMBDA tc : tc.index = i)

NewSolo == [parser |-> NewParser, completed |-> <<>>]

\* The reference run of index i: a parser of its own that is handed only the
\* fragments of index i, and the ToolCalls it has returned.
SoloIngest(s, request_id, tool_calls) ==
    IF tool_calls = <<>> THEN s
    ELSE LET out == GetToolCallsFromDeltas(s.parser, request_id, DeltaMessage(tool_calls))
         IN  [parser |-> out.parser,
              completed |-> s.completed \o out.result.tool_calls]

InitMulti ==
    /\ NoCollector
    /\ NoSequenceGroup
    /\ SetParserInit
    /\ last = NoCall
    /\ NewEngineObjects
    /\ completed = NothingCompleted
    /\ solo = [i \in MultiIndices |-> NewSolo]
    /\ script = NoScript

IngestMulti(delta) ==
    /\ CallGetToolCallsFromDeltas("A", delta)
    /\ WithinArgsBound(MaxArgsLen)
    /\ solo' = [i \in MultiIndices |->
                   SoloIngest(solo[i], "A", FragmentsOf(delta.tool_calls, i))]
    /\ UNCHANGED script
    /\ UNCHANGED hook_vars

NextMulti ==
    \/ Idle /\ \E delta \in Deltas(MultiFragments, Parser, "A", MultiMaxBatch) :
                   IngestMulti(delta)
    \/ Forward

SpecMulti == InitMulti /\ [][NextMulti]_vars

---------------------------------------------------------------------------
(* Two requests on one parser instance, their operations interleaved.      *)

IsoMaxBatch == 1    \* most DeltaToolCalls in one DeltaMessage, two-request runs
IsoMaxTokens == 1   \* most token ids accumulated per request
IsoMaxChunks == 1   \* most chunks recorded per request

\* Tool index 0 of either request: the whole call with its opening brace, and
\* the closing brace.
IsoFragments ==
    {DeltaToolCall(0, "call_1", "function", DeltaFunctionCall("get_weather", <<"{">>)),
     DeltaToolCall(0, None, None, DeltaFunctionCall(None, <<"}">>))}
IsoTokens == {<<>>, <<1>>}
IsoExtractions ==
    {Extraction(TRUE, NoDelta), Extraction(FALSE, NoDelta),
     Extraction(FALSE, SomeDelta(DeltaMessage(
         <<DeltaToolCall(0, None, None, DeltaFunctionCall(None, <<"}">>))>>)))}

\* The reference run of request r: a parser of its own that sees only the
\* operations on r, and what its last operation returned.
NewSoloRequest == [parser |-> NewParser, result |-> NoResult, delta_message |-> NoDelta]

InitIso ==
    /\ NoCollector
    /\ NoSequenceGroup
    /\ SetParserInit
    /\ last = NoCall
    /\ NewEngineObjects
    /\ completed = NothingCompleted
    /\ solo = [r \in AllRequests |-> NewSoloRequest]
    /\ script = NoScript

WithinDecodeBound ==
    \A r \in DOMAIN accumulated_token_ids' :
        /\ Len(accumulated_token_ids'[r]) <= IsoMaxTokens
        /\ Len(chunks_mapping'[r]) <= IsoMaxChunks

IsoUpdate(r, new_token_ids, extraction) ==
    /\ CallUpdateFromEngineOutput(r, new_token_ids, extraction)
    /\ WithinDecodeBound
    /\ LET ref == UpdateFromEngineOutput(solo[r].parser, r, new_token_ids, extraction)
       IN  solo' = [solo EXCEPT ![r] = [parser |-> ref.parser, result |-> NoResult,
                                        delta_message |-> ref.delta_message]]
    /\ UNCHANGED script
    /\ UNCHANGED hook_vars

IsoIngest(r, delta) ==
    /\ CallGetToolCallsFromDeltas(r, delta)
    /\ LET ref == GetToolCallsFromDeltas(solo[r].parser, r, delta)
       IN  solo' = [solo EXCEPT ![r] = [parser |-> ref.parser, result |-> ref.result,
                                        delta_message |-> NoDelta]]
    /\ UNCHANGED script
    /\ UNCHANGED hook_vars

IsoReset(r) ==
    /\ CallClearRequestState(r)
    /\ solo' = [solo EXCEPT ![r] = [parser |-> ClearRequestState(solo[r].parser, r),
                                    result |-> NoResult, delta_message |-> NoDelta]]
    /\ UNCHANGED script
    /\ UNCHANGED hook_vars

NextIso ==
    \/ Idle /\ \E r \in AllRequests, new_token_ids \in IsoTokens, extraction \in IsoExtractions :
                   IsoUpdate(r, new_token_ids, extraction)
    \/ Idle /\ \E r \in AllRequests :
                   \E delta \in Deltas(IsoFragments, Parser, r, IsoMaxBatch) : IsoIngest(r, delta)
    \/ \E r \in AllRequests : IsoReset(r)
    \/ Forward

SpecIso == InitIso /\ [][NextIso]_vars

---------------------------------------------------------------------------
(* One request through the whole pipeline: decode steps, fragment batches, *)
(* the composed call, and resets.                                          *)

DecMaxArgsLen == 3  \* longest accumulated arguments text, pipeline runs
DecMaxBatch == 2    \* most DeltaToolCalls in one DeltaMessage, pipeline runs
DecMaxTokens == 2   \* most token ids accumulated, pipeline runs
DecMaxChunks == 1   \* most chunks recorded, pipeline runs

\* Index 0 is built from a whole call with its opening brace and closing
\* braces; index 1 arrives complete in one fragment.
DecFragments ==
    {DeltaToolCall(0, "call_1", "function", DeltaFunctionCall("get_weather", <<"{">>)),
     DeltaToolCall(0, None, None, DeltaFunctionCall(None, <<"}">>)),
     DeltaToolCall(1, "call_2", "function", DeltaFunctionCall("send_email", <<"{", "}">>))}
\* Token 0 is a special token.
DecTokens == {<<>>, <<1>>, <<0, 2>>}

DecDeltas(F, n) ==
    {DeltaMessage(tcs) : tcs \in Batches(F, Room(Parser, "A", DecMaxArgsLen), n)}

\* What the tool parser may do in a decode step: raise TypeError, return
\* None, or return a DeltaMessage of at most one fragment of index 0.
DecExtractions ==
    {Extraction(TRUE, NoDelta), Extraction(FALSE, NoDelta)} \cup
    {Extraction(FALSE, SomeDelta(d)) :
        d \in DecDeltas({f \in DecFragments : f.index = 0}, 1)}

WithinDecBound ==
    \A r \in DOMAIN accumulated_token_ids' :
        /\ Len(accumulated_token_ids'[r]) <= DecMaxTokens
        /\ Len(chunks_mapping'[r]) <= DecMaxChunks

DecUpdate(new_token_ids, extraction) ==
    /\ CallUpdateFromEngineOutput("A", new_token_ids, extraction)
    /\ WithinDecBound
    /\ UNCHANGED <<solo, script>>
    /\ UNCHANGED hook_vars

DecProcess(new_token_ids, extraction) ==
    /\ CallProcessEngineOutputForTools("A", new_token_ids, extraction)
    /\ WithinDecBound
    /\ UNCHANGED <<solo, script>>
    /\ UNCHANGED hook_vars

DecIngest(delta) ==
    /\ CallGetToolCallsFromDeltas("A", delta)
    /\ UNCHANGED <<solo, script>>
    /\ UNCHANGED hook_vars

NextDecode ==
    \/ Idle /\ \E new_token_ids \in DecTokens, extraction \in DecExtractions :
                   DecUpdate(new_token_ids, extraction)
    \/ Idle /\ \E new_token_ids \in DecTokens, extraction \in DecExtractions :
                   DecProcess(new_token_ids, extraction)
    \/ Idle /\ \E delta \in DecDeltas(DecFragments, DecMaxBatch) : DecIngest(delta)
    \/ Reset("A")
    \/ Forward

SpecDecode == Init /\ [][NextDecode]_vars

---------------------------------------------------------------------------
(* Properties of get_tool_calls_from_deltas, under Spec *)

Range(f) == {f[x] : x \in DOMAIN f}
Occurrences(text, c) == Cardinality({k \in 1..Len(text) : text[k] = c})
IsPrefix(a, b) == Len(a) <= Len(b) /\ SubSeq(b, 1, Len(a)) = a

LastGet == last.op = "get"
LastBatch == last.delta.tool_calls
PreToolState == InitializeRequestState(last.pre, last.request_id).tool_states[last.request_id]
PreYielded == InitializeRequestState(last.pre, last.request_id).yielded_indices[last.request_id]

\* The accumulator of index i once the first k fragments of the last batch
\* have been applied to the state the call started from.
RECURSIVE AccumulatorAfter(_, _)
AccumulatorAfter(i, k) ==
    IF k = 0
    THEN IF i \in DOMAIN PreToolState THEN PreToolState[i] ELSE NewToolState
    ELSE IF LastBatch[k].index = i
         THEN UpdateState(AccumulatorAfter(i, k - 1), LastBatch[k])
         ELSE AccumulatorAfter(i, k - 1)

\* The spec's emission predicate on an accumulator, braces counted over the text.
Complete(acc) ==
    /\ acc.id # None /\ acc.type # None /\ acc.function_name # None
    /\ acc.brace_count = 0
    /\ acc.arguments # <<>>
    /\ "{" \in Range(acc.arguments)

\* C1: a ToolCall for one (request, tool index) is returned at most once,
\* whatever fragments arrive after its first emission.
C1_AtMostOnceEmission ==
    \A r \in AllRequests : \A i \in AllIndices : Len(completed[r][i]) <= 1

\* An already emitted index receives a fragment that leaves it complete, and
\* the call returns nothing.
C1_Witness ==
    /\ LastGet /\ LastBatch # <<>>
    /\ 0 \in PreYielded
    /\ \E k \in 1..Len(LastBatch) : LastBatch[k].index = 0
    /\ Complete(tool_states["A"][0])
    /\ last.result.is_none
    /\ Len(completed["A"][0]) = 1

\* C2: the call returns a ToolCall for an index exactly when the index was not
\* yet emitted and, once one of the batch's fragments for it has been applied,
\* id, type and function_name are non-null, brace_count is 0 and the arguments
\* are non-empty and contain '{'; when no index does, the call returns none.
C2_EmissionPredicate ==
    LastGet =>
        /\ \A i \in AllIndices :
              (i \in Range(last.emit_index)) <=>
                  /\ i \notin PreYielded
                  /\ \E k \in 1..Len(LastBatch) :
                        LastBatch[k].index = i /\ Complete(AccumulatorAfter(i, k))
        /\ Len(last.result.tool_calls) = Len(last.emit_index)
        /\ last.result.is_none <=> (last.emit_index = <<>>)

\* A fragment arrives for an index whose arguments balance but whose type is
\* still missing: the call returns none.
C2_Witness ==
    /\ LastGet /\ LastBatch # <<>>
    /\ last.result.is_none
    /\ 0 \in DOMAIN tool_states["A"]
    /\ LET acc == tool_states["A"][0]
       IN  /\ acc.id # None /\ acc.function_name # None /\ acc.type = None
           /\ acc.brace_count = 0 /\ "{" \in Range(acc.arguments)

\* C3: after a call returns, every accumulator with id, type and name set,
\* brace_count 0 and a '{' in its arguments is in yielded_indices.
C3_CompleteIsEmitted ==
    \A r \in DOMAIN tool_states : \A i \in DOMAIN tool_states[r] :
        LET acc == tool_states[r][i]
        IN  (/\ acc.id # None /\ acc.type # None /\ acc.function_name # None
             /\ acc.brace_count = 0
             /\ "{" \in Range(acc.arguments))
            => i \in yielded_indices[r]

\* The call that completes an index whose text does not start with '{'.
C3_Witness ==
    /\ LastGet
    /\ 0 \notin PreYielded
    /\ 0 \in yielded_indices["A"]
    /\ tool_states["A"][0].arguments = <<"}", "{">>

\* C4: brace_count equals the number of '{' minus the number of '}' in the
\* whole accumulated arguments text.
C4_BraceDepth ==
    \A r \in DOMAIN tool_states : \A i \in DOMAIN tool_states[r] :
        tool_states[r][i].brace_count =
            Occurrences(tool_states[r][i].arguments, "{")
            - Occurrences(tool_states[r][i].arguments, "}")

\* Text built by more than one fragment, with a closing brace in it.
C4_Witness ==
    /\ LastGet
    /\ 0 \in DOMAIN PreToolState
    /\ PreToolState[0].arguments = <<"{">>
    /\ tool_states["A"][0].arguments = <<"{", "}">>
    /\ tool_states["A"][0].brace_count = 0

\* C5: without a reset in between, the arguments text of a (request, index) is
\* only extended at its end: the old text is a prefix of the new one.
C5_MonotonicArguments ==
    [][\A r \in (DOMAIN tool_states) \cap (DOMAIN tool_states') :
         \A i \in (DOMAIN tool_states[r]) \cap (DOMAIN tool_states'[r]) :
            IsPrefix(tool_states[r][i].arguments, tool_states'[r][i].arguments)]_vars

\* A non-empty text has been extended by a later call.
C5_Witness ==
    /\ LastGet
    /\ 0 \in DOMAIN PreToolState
    /\ PreToolState[0].arguments # <<>>
    /\ Len(tool_states["A"][0].arguments) > Len(PreToolState[0].arguments)

---------------------------------------------------------------------------
(* Properties under SpecIncr *)

\* The argument increments of the script's fragments 3..k, concatenated.
RECURSIVE PiecesUpTo(_)
PiecesUpTo(k) ==
    IF k <= 2 THEN <<>>
    ELSE PiecesUpTo(k - 1) \o script.fragments[k].function.arguments

\* The text fed by the k-th call closes: as many '}' as '{', and a '{'.
ClosesAt(k) ==
    /\ k >= 3
    /\ Occurrences(PiecesUpTo(k), "{") = Occurrences(PiecesUpTo(k), "}")
    /\ "{" \in Range(PiecesUpTo(k))

\* C6: fed one fragment per call, every call before the completing one returns
\* none, and the completing call returns exactly one ToolCall with the id, type
\* and name supplied and the increments received so far, joined in order.
C6_IncrementalReconstruction ==
    \A j \in 1..script.fed :
        /\ (\A k \in 1..j : ~ClosesAt(k)) => script.results[j].is_none
        /\ (ClosesAt(j) /\ \A k \in 1..(j - 1) : ~ClosesAt(k)) =>
              script.results[j] =
                  SomeResult(<<ToolCall(script.fragments[1].id,
                                         script.fragments[1].type,
                                         script.fragments[2].function.name,
                                         PiecesUpTo(j))>>)

\* The third argument piece completes the call.
C6_Witness ==
    /\ script.fed = 5
    /\ ~script.results[5].is_none
    /\ script.results[4].is_none
    /\ script.fragments[1].id = "call_2"

---------------------------------------------------------------------------
(* Properties under SpecMulti *)

TouchedIn(i) == \E k \in 1..Len(LastBatch) : LastBatch[k].index = i
FirstTouch(i) == CHOOSE k \in 1..Len(LastBatch) :
    LastBatch[k].index = i /\ \A j \in 1..(k - 1) : LastBatch[j].index # i

\* The indices that complete in the last call, and the fragment that did it.
CompletesAt(i, k) ==
    /\ LastBatch[k].index = i
    /\ i \notin PreYielded
    /\ Complete(AccumulatorAfter(i, k))
    /\ \A j \in 1..(k - 1) : ~(LastBatch[j].index = i /\ Complete(AccumulatorAfter(i, j)))
CompletedInCall == {i \in AllIndices : \E k \in 1..Len(LastBatch) : CompletesAt(i, k)}
CompletingFragment(i) == CHOOSE k \in 1..Len(LastBatch) : CompletesAt(i, k)

AllInOneList ==
    /\ Range(last.emit_index) = CompletedInCall
    /\ Len(last.emit_index) = Cardinality(CompletedInCall)
    /\ Len(last.result.tool_calls) = Len(last.emit_index)
NoneNotEmptyList ==
    /\ last.result.is_none <=> (CompletedInCall = {})
    /\ last.result # SomeResult(<<>>)

\* C7 as stated: all ToolCalls completing in the call are returned in one list,
\* in the order in which their indices were touched in the call, and none is
\* returned when nothing completed.
C7_OrderedByTouch ==
    LastGet =>
        /\ AllInOneList
        /\ NoneNotEmptyList
        /\ \A a, b \in 1..Len(last.emit_index) :
              a < b => FirstTouch(last.emit_index[a]) < FirstTouch(last.emit_index[b])

\* C7, amended: the list is ordered by the position in the batch of the
\* fragment that completed each tool call.
C7_OrderedByCompletion ==
    LastGet =>
        /\ AllInOneList
        /\ NoneNotEmptyList
        /\ \A a, b \in 1..Len(last.emit_index) :
              a < b => CompletingFragment(last.emit_index[a])
                           < CompletingFragment(last.emit_index[b])

\* Two indices complete in one call, the one touched first completing last.
C7_Witness ==
    /\ LastGet
    /\ Len(last.result.tool_calls) = 2
    /\ last.emit_index = <<1, 0>>
    /\ LastBatch[1].index = 0

\* C8: however the fragments of index 0 and of index 1 are interleaved, each
\* index yields the ToolCalls (id, type, name, arguments) that its fragments
\* yield when processed alone.
C8_OrderIndependence ==
    \A i \in DOMAIN solo : completed["A"][i] = solo[i].completed

\* Both indices have completed, index 1 first, from interleaved fragments.
C8_Witness ==
    /\ LastGet
    /\ last.emit_index = <<0>>
    /\ 1 \in PreYielded
    /\ 1 \in DOMAIN PreToolState /\ 0 \in DOMAIN PreToolState
    /\ Len(completed["A"][0]) = 1 /\ Len(completed["A"][1]) = 1
    /\ completed["A"][0][1].function.arguments = <<"{", "}">>

\* C9: a call changes nothing of an index that is not in its batch: the index
\* stays (un)tracked, its accumulator fields and its emitted flag are as before.
C9_UntouchedIndexFrame ==
    LastGet =>
        \A i \in AllIndices :
            ~TouchedIn(i) =>
                /\ (i \in DOMAIN tool_states["A"]) <=> (i \in DOMAIN PreToolState)
                /\ i \in DOMAIN PreToolState => tool_states["A"][i] = PreToolState[i]
                /\ (i \in yielded_indices["A"]) <=> (i \in PreYielded)

\* Index 0 completes in a call while index 1, half built, is not in the batch.
C9_Witness ==
    /\ LastGet
    /\ ~TouchedIn(1) /\ TouchedIn(0)
    /\ 1 \in DOMAIN PreToolState
    /\ PreToolState[1].arguments = <<"{">>
    /\ last.emit_index = <<0>>

---------------------------------------------------------------------------
(* Properties under SpecIso *)

\* What a parser holds for request r: per dict, the entry of r if there is one.
RequestView(p, r) ==
    [chunks_mapping |-> IF r \in DOMAIN p.chunks_mapping
                        THEN <<p.chunks_mapping[r]>> ELSE <<>>,
     tool_states |-> IF r \in DOMAIN p.tool_states
                     THEN <<p.tool_states[r]>> ELSE <<>>,
     yielded_indices |-> IF r \in DOMAIN p.yielded_indices
                         THEN <<p.yielded_indices[r]>> ELSE <<>>,
     accumulated_text |-> IF r \in DOMAIN p.accumulated_text
                          THEN <<p.accumulated_text[r]>> ELSE <<>>,
     accumulated_token_ids |-> IF r \in DOMAIN p.accumulated_token_ids
                               THEN <<p.accumulated_token_ids[r]>> ELSE <<>>]

\* C10: whatever operations on the other request are interleaved, a request's
\* state and everything returned for it are those of its own operations run
\* alone on a parser of their own.
C10_RequestIsolation ==
    /\ \A r \in DOMAIN solo : RequestView(Parser, r) = RequestView(solo[r].parser, r)
    /\ ~Idle =>
          /\ last.result = solo[last.request_id].result
          /\ last.delta_message = solo[last.request_id].delta_message

\* Request A is reset while B keeps a half-built accumulator at the same index
\* and its decoded tokens.
C10_Witness ==
    /\ last.op = "clear" /\ last.request_id = "A"
    /\ "A" \in DOMAIN last.pre.tool_states
    /\ 0 \in DOMAIN last.pre.tool_states["A"]
    /\ 0 \in last.pre.yielded_indices["A"]
    /\ "B" \in DOMAIN tool_states
    /\ 0 \in DOMAIN tool_states["B"]
    /\ tool_states["B"][0].arguments = <<"{">>
    /\ accumulated_token_ids["B"] = <<1>>

\* The last call was update_from_engine_output with an empty token list.
LastEmptyUpdate == last.op = "update" /\ last.new_token_ids = <<>>

\* C11 as stated: update_from_engine_output with an empty token list returns
\* None and leaves all five dicts as they were, also for a request id never
\* seen before.
C11_EmptyInputNoOp ==
    LastEmptyUpdate =>
        /\ last.delta_message.is_none
        /\ Parser = last.pre

\* A dict after the request has been registered: as before when the request
\* had an entry, with the empty entry added otherwise.
RegisteredIn(before, after, r, empty) ==
    after = IF r \in DOMAIN before THEN before ELSE Put(before, r, empty)

\* C11, amended: with an empty token list the call returns None and changes
\* nothing of a request that is already tracked; a request never seen before is
\* registered with empty entries (no chunks, no accumulators, nothing emitted,
\* empty text, no token ids), and nothing else changes.
C11_EmptyInputRegistersOnly ==
    LastEmptyUpdate =>
        /\ last.delta_message.is_none
        /\ RegisteredIn(last.pre.chunks_mapping, chunks_mapping, last.request_id, <<>>)
        /\ RegisteredIn(last.pre.tool_states, tool_states, last.request_id, EmptyDict)
        /\ RegisteredIn(last.pre.yielded_indices, yielded_indices, last.request_id, {})
        /\ RegisteredIn(last.pre.accumulated_text, accumulated_text,
                        last.request_id, EmptyStr)
        /\ RegisteredIn(last.pre.accumulated_token_ids, accumulated_token_ids,
                        last.request_id, <<>>)

\* An empty decode step on a request never seen before, the tool parser ready
\* to return a fragment, while the other request is tracked.
C11_Witness ==
    /\ LastEmptyUpdate
    /\ last.request_id = "A"
    /\ "A" \notin DOMAIN last.pre.tool_states
    /\ ~last.extraction.returns.is_none
    /\ "B" \in DOMAIN tool_states
    /\ accumulated_token_ids["B"] # <<>>

---------------------------------------------------------------------------
(* Properties under SpecDecode *)

\* The ToolCall the last call returned for index i.
EmittedFor(i) ==
    last.result.tool_calls[CHOOSE j \in 1..Len(last.emit_index) : last.emit_index[j] = i]

BuiltFrom(acc) == ToolCall(acc.id, acc.type, acc.function_name, acc.arguments)

\* C12 as stated: the emission predicate of an index is evaluated once all
\* fragments of the batch have been applied, so whether a ToolCall is returned
\* for an index of the batch, and its arguments, follow the accumulator as it
\* is at the end of the batch.
C12_BatchEndEvaluation ==
    LastGet =>
        \A i \in {x \in AllIndices : TouchedIn(x)} :
            /\ (i \in Range(last.emit_index)) <=>
                  (i \notin PreYielded /\ Complete(AccumulatorAfter(i, Len(LastBatch))))
            /\ (i \in Range(last.emit_index)) =>
                  EmittedFor(i) = BuiltFrom(AccumulatorAfter(i, Len(LastBatch)))

\* C12, amended: the emission predicate of an index is evaluated after each
\* fragment of the batch for that index is applied; a ToolCall is returned for
\* the index exactly when the predicate holds after one of them, and it is
\* built from the accumulator as it is right after the first such fragment.
C12_PerFragmentEvaluation ==
    LastGet =>
        \A i \in {x \in AllIndices : TouchedIn(x)} :
            /\ (i \in Range(last.emit_index)) <=>
                  (\E k \in 1..Len(LastBatch) : CompletesAt(i, k))
            /\ (i \in Range(last.emit_index)) =>
                  EmittedFor(i) = BuiltFrom(AccumulatorAfter(i, CompletingFragment(i)))

\* A batch with two fragments for index 0: the first completes the call, the
\* second leaves the accumulator incomplete and with another text.
C12_Witness ==
    /\ LastGet
    /\ Len(LastBatch) = 2
    /\ LastBatch[1].index = 0 /\ LastBatch[2].index = 0
    /\ last.emit_index = <<0>>
    /\ CompletingFragment(0) = 1
    /\ ~Complete(tool_states["A"][0])
    /\ EmittedFor(0).function.arguments # tool_states["A"][0].arguments

---------------------------------------------------------------------------
(* More properties under SpecIso *)

LastClear == last.op = "clear"

\* The request has no entry in any of the five dicts.
NeverTracked(p, r) ==
    /\ r \notin DOMAIN p.chunks_mapping
    /\ r \notin DOMAIN p.tool_states
    /\ r \notin DOMAIN p.yielded_indices
    /\ r \notin DOMAIN p.accumulated_text
    /\ r \notin DOMAIN p.accumulated_token_ids

\* Each operation on request r gives on parser p what it gives on a parser
\* just constructed: the same return value and the same entries for r.
BehavesAsFresh(p, r) ==
    /\ \A delta \in Deltas(IsoFragments, NewParser, r, IsoMaxBatch) :
          LET a == GetToolCallsFromDeltas(p, r, delta)
              b == GetToolCallsFromDeltas(NewParser, r, delta)
          IN  a.result = b.result /\ RequestView(a.parser, r) = RequestView(b.parser, r)
    /\ \A new_token_ids \in IsoTokens, extraction \in IsoExtractions :
          LET a == UpdateFromEngineOutput(p, r, new_token_ids, extraction)
              b == UpdateFromEngineOutput(NewParser, r, new_token_ids, extraction)
          IN  /\ a.delta_message = b.delta_message
              /\ RequestView(a.parser, r) = RequestView(b.parser, r)

\* C13: clear_request_state leaves the request never tracked (no accumulators,
\* no emitted set, no chunks, no decoded text or tokens), so that every later
\* operation on it behaves as on a fresh parser; a second call, or a call for
\* a request that was not tracked, changes nothing.
C13_ResetToNeverTracked ==
    LastClear =>
        /\ NeverTracked(Parser, last.request_id)
        /\ BehavesAsFresh(Parser, last.request_id)
        /\ ClearRequestState(Parser, last.request_id) = Parser
        /\ NeverTracked(last.pre, last.request_id) => Parser = last.pre

\* Request A is reset with an emitted tool call, a recorded chunk and decoded
\* tokens, while B is tracked.
C13_Witness ==
    /\ LastClear /\ last.request_id = "A"
    /\ "A" \in DOMAIN last.pre.tool_states
    /\ 0 \in last.pre.yielded_indices["A"]
    /\ last.pre.chunks_mapping["A"] # <<>>
    /\ last.pre.accumulated_token_ids["A"] # <<>>
    /\ "B" \in DOMAIN tool_states

---------------------------------------------------------------------------
(* More properties under SpecDecode *)

LastProcess == last.op = "process"

\* C14: process_engine_output_for_tools returns what, and leaves the parser as,
\* update_from_engine_output followed - when it returned a DeltaMessage - by
\* get_tool_calls_from_deltas on that message does from the same state with the
\* same input.
C14_ProcessIsComposition ==
    LastProcess =>
        LET u == UpdateFromEngineOutput(last.pre, last.request_id,
                                        last.new_token_ids, last.extraction)
            g == GetToolCallsFromDeltas(u.parser, last.request_id,
                                        u.delta_message.message)
        IN  IF u.delta_message.is_none
            THEN last.result.is_none /\ Parser = u.parser
            ELSE last.result = g.result /\ Parser = g.parser

\* The composed call on tokens whose fragment completes a tool call, and the
\* same call when the tool parser returns nothing.
C14_Witness ==
    /\ LastProcess
    /\ ~last.delta_message.is_none
    /\ ~last.result.is_none
    /\ last.new_token_ids = <<0, 2>>
    /\ Len(chunks_mapping["A"]) = 1
    /\ 0 \in yielded_indices["A"]

\* What a parser holds for a request, an untracked request holding nothing.
ChunksOf(p, r) == IF r \in DOMAIN p.chunks_mapping THEN p.chunks_mapping[r] ELSE <<>>
AccumulatorsOf(p, r) == IF r \in DOMAIN p.tool_states THEN p.tool_states[r] ELSE EmptyDict
EmittedOf(p, r) == IF r \in DOMAIN p.yielded_indices THEN p.yielded_indices[r] ELSE {}

\* The last call was update_from_engine_output with tokens, and the tool
\* parser raised TypeError.
LastUpdateRaised ==
    /\ last.op = "update"
    /\ last.new_token_ids # <<>>
    /\ last.extraction.raises_type_error

\* C15: when the tool parser raises TypeError inside update_from_engine_output,
\* the call returns None, records no chunk, changes no accumulator and no
\* emitted flag, and leaves the parser as a step in which the tool parser
\* returned None leaves it, so that later steps go on from there.
C15_TypeErrorIsNoFragments ==
    LastUpdateRaised =>
        /\ last.delta_message.is_none
        /\ ChunksOf(Parser, last.request_id) = ChunksOf(last.pre, last.request_id)
        /\ AccumulatorsOf(Parser, last.request_id)
              = AccumulatorsOf(last.pre, last.request_id)
        /\ EmittedOf(Parser, last.request_id) = EmittedOf(last.pre, last.request_id)
        /\ Parser = UpdateFromEngineOutput(last.pre, last.request_id, last.new_token_ids,
                                           Extraction(FALSE, NoDelta)).parser

\* The tool parser raises on a request that already has a chunk, an accumulator
\* and decoded tokens.
C15_Witness ==
    /\ LastUpdateRaised
    /\ "A" \in DOMAIN last.pre.tool_states
    /\ 0 \in DOMAIN last.pre.tool_states["A"]
    /\ last.pre.chunks_mapping["A"] # <<>>
    /\ accumulated_token_ids["A"] = <<1, 1>>

TextOf(p, r) == IF r \in DOMAIN p.accumulated_text THEN p.accumulated_text[r] ELSE EmptyStr
TokenIdsOf(p, r) ==
    IF r \in DOMAIN p.accumulated_token_ids THEN p.accumulated_token_ids[r] ELSE <<>>

\* The last call ran update_from_engine_output on a non-empty token list,
\* directly or through process_engine_output_for_tools.
LastDecodedTokens == last.op \in {"update", "process"} /\ last.new_token_ids # <<>>

\* C16: a decode step with tokens leaves accumulated_text as it was followed by
\* the decoded text of the step, and accumulated_token_ids as it was followed
\* by the step's token ids; no call other than a reset shortens or rewrites
\* either of them.
C16_AppendOnlyDecoding ==
    /\ LastDecodedTokens =>
          /\ accumulated_text[last.request_id]
                = TextOf(last.pre, last.request_id) \o Decode(last.new_token_ids)
          /\ accumulated_token_ids[last.request_id]
                = TokenIdsOf(last.pre, last.request_id) \o last.new_token_ids
    /\ (~Idle /\ ~LastClear) =>
          /\ IsPrefix(TextOf(last.pre, last.request_id), TextOf(Parser, last.request_id))
          /\ IsPrefix(TokenIdsOf(last.pre, last.request_id),
                      TokenIdsOf(Parser, last.request_id))

\* A second decode step appends to the text and token ids of the first.
C16_Witness ==
    /\ LastDecodedTokens
    /\ TokenIdsOf(last.pre, "A") = <<1>>
    /\ accumulated_token_ids["A"] = <<1, 1>>
    /\ accumulated_text["A"] = <<"{", "{">>

\* The fragments the last call handed to the accumulators: the batch passed to
\* get_tool_calls_from_deltas, or the one the decode step of
\* process_engine_output_for_tools produced.
IngestedBatch ==
    IF last.op = "get" THEN last.delta.tool_calls
    ELSE IF last.op = "process" /\ ~last.delta_message.is_none
         THEN last.delta_message.message.tool_calls
         ELSE <<>>

\* Accumulator acc after the fragments k.. of the batch that name index i.
RECURSIVE UpdatedBy(_, _, _, _)
UpdatedBy(acc, batch, i, k) ==
    IF k > Len(batch) THEN acc
    ELSE UpdatedBy(IF batch[k].index = i THEN UpdateState(acc, batch[k]) ELSE acc,
                   batch, i, k + 1)

\* C17: a (request, index) pair has an accumulator from the first fragment
\* that names the index on - also when the request was never registered - and
\* not before; until the request is reset the accumulator stays, and later
\* fragments update it where it stands, never a fresh one in its place; a
\* reset removes the accumulators of the request.
C17_OneAccumulatorPerIndex ==
    ~Idle =>
        LET r == last.request_id
            before == AccumulatorsOf(last.pre, r)
            after == AccumulatorsOf(Parser, r)
            named == {IngestedBatch[k].index : k \in 1..Len(IngestedBatch)}
        IN  IF LastClear
            THEN after = EmptyDict
            ELSE /\ DOMAIN after = DOMAIN before \cup named
                 /\ \A i \in DOMAIN after :
                       after[i] = UpdatedBy(IF i \in DOMAIN before THEN before[i]
                                            ELSE NewToolState,
                                            IngestedBatch, i, 1)

\* A batch names index 0, which has an accumulator holding text, and index 1,
\* which has none yet.
C17_Witness ==
    /\ LastGet
    /\ "A" \in DOMAIN last.pre.tool_states
    /\ DOMAIN last.pre.tool_states["A"] = {0}
    /\ last.pre.tool_states["A"][0].arguments = <<"{">>
    /\ DOMAIN tool_states["A"] = {0, 1}
    /\ tool_states["A"][0].arguments = <<"{", "}">>

---------------------------------------------------------------------------
(* The sequence hook (vllm/engine/output_processor/sequence_hook.py):      *)
(* SequenceHookOutputProcessor working on one SequenceGroup.               *)

MaxSamples == 2     \* most samples in one step output
MaxSeqs == 3        \* most sequences in the group

SyncTokenId == 12345
PromiseTokenId == 67890
NormalTokenId == 999
AbsentSeqId == 999  \* a parent_seq_id that no sequence of the group has
NoParentSeqId == -1 \* parent_seq_id of a sequence that has no parent (None)

SequenceStatuses == {"WAITING", "RUNNING", "BLOCKED", "FINISHED_STOPPED"}

Sequence(seq_id, status, parent_seq_id) ==
    [seq_id |-> seq_id, status |-> status, parent_seq_id |-> parent_seq_id]

SequenceOutput(parent_seq_id, output_token) ==
    [parent_seq_id |-> parent_seq_id, output_token |-> output_token]

\* _handle_sync, from the k-th sample on: seq_idx is the position of the
\* sample in output.samples, counted from 0.
RECURSIVE HandleSyncFrom(_, _, _, _)
HandleSyncFrom(seqs, samples, sync_token_id, k) ==
    IF k > Len(samples) THEN seqs
    ELSE LET seq_idx == k - 1
         IN  HandleSyncFrom(
                 IF samples[k].output_token = sync_token_id /\ seq_idx < Len(seqs)
                 THEN [seqs EXCEPT ![seq_idx + 1].status = "BLOCKED"]
                 ELSE seqs,
                 samples, sync_token_id, k + 1)

HandleSync(seqs, samples, sync_token_id) == HandleSyncFrom(seqs, samples, sync_token_id, 1)

\* SequenceGroup.spawn_child: the child joins the group in WAITING, its
\* parent link set to the given parent.
SpawnChild(seqs, parent_seq_id, new_seq_id) ==
    Append(seqs, Sequence(new_seq_id, "WAITING", parent_seq_id))

\* _handle_promise, from the k-th sample on: the group's sequences and the
\* counter after it.
RECURSIVE HandlePromiseFrom(_, _, _, _, _)
HandlePromiseFrom(seqs, counter, samples, promise_token_id, k) ==
    IF k > Len(samples) THEN [seqs |-> seqs, seq_counter |-> counter]
    ELSE LET seq_idx == k - 1
         IN  IF samples[k].output_token = promise_token_id /\ seq_idx < Len(seqs)
             THEN LET parent_seq == seqs[seq_idx + 1]
                      child_seq_id == counter
                      spawned == SpawnChild(seqs, parent_seq.seq_id, child_seq_id)
                  IN  HandlePromiseFrom(
                          [spawned EXCEPT ![seq_idx + 1].status = "BLOCKED"],
                          counter + 1, samples, promise_token_id, k + 1)
             ELSE HandlePromiseFrom(seqs, counter, samples, promise_token_id, k + 1)

HandlePromise(seqs, counter, samples, promise_token_id) ==
    HandlePromiseFrom(seqs, counter, samples, promise_token_id, 1)

\* The groups the runs start from: one or two sequences in any status, the
\* second possibly a child of the first; the counter is past their ids.
HookGroups ==
    {[seqs |-> <<Sequence(1, s1, NoParentSeqId)>>] : s1 \in SequenceStatuses} \cup
    {[seqs |-> <<Sequence(1, s1, NoParentSeqId), Sequence(2, s2, parent)>>] :
        s1 \in SequenceStatuses, s2 \in SequenceStatuses, parent \in {NoParentSeqId, 1}}
HookFirstFreeId == 3

\* The samples of a step: each names the sequence it was sampled for and the
\* token; the lists of at most n of them.
HookSamples ==
    {SequenceOutput(parent_seq_id, output_token) :
        parent_seq_id \in {1, 2, AbsentSeqId},
        output_token \in {SyncTokenId, PromiseTokenId, NormalTokenId}}
HookOutputs(n) == UNION {[1..k -> HookSamples] : k \in 0..n}

\* What the hook never touches.
parser_vars == <<chunks_mapping, tool_states, yielded_indices, accumulated_text,
                 accumulated_token_ids, completed, solo, script, collector, handoff,
                 seq_parser, request_state, output_processor>>

InitHook ==
    /\ NoCollector
    /\ SetParserInit
    /\ last = NoCall
    /\ NewEngineObjects
    /\ completed = NothingCompleted
    /\ solo = EmptyDict
    /\ script = NoScript
    /\ seq_group \in HookGroups
    /\ seq_counter = HookFirstFreeId

CallHandleSync(samples) ==
    /\ Idle
    /\ seq_group' = [seq_group EXCEPT !.seqs = HandleSync(@, samples, SyncTokenId)]
    /\ last' = [op |-> "sync", samples |-> samples,
                pre |-> seq_group, pre_counter |-> seq_counter]
    /\ UNCHANGED seq_counter
    /\ UNCHANGED parser_vars

CallHandlePromise(samples) ==
    LET out == HandlePromise(seq_group.seqs, seq_counter, samples, PromiseTokenId)
    IN  /\ Idle
        /\ Len(out.seqs) <= MaxSeqs
        /\ seq_group' = [seq_group EXCEPT !.seqs = out.seqs]
        /\ seq_counter' = out.seq_counter
        /\ last' = [op |-> "promise", samples |-> samples,
                    pre |-> seq_group, pre_counter |-> seq_counter]
        /\ UNCHANGED parser_vars

NextHook ==
    \/ Idle /\ \E samples \in HookOutputs(MaxSamples) : CallHandleSync(samples)
    \/ Idle /\ \E samples \in HookOutputs(MaxSamples) : CallHandlePromise(samples)
    \/ Forward

SpecHook == InitHook /\ [][NextHook]_vars

---------------------------------------------------------------------------
(* Properties under SpecHook *)

LastSync == last.op = "sync"
LastPromise == last.op = "promise"

\* The position in the group, before the call, of the sequence with this id
\* (0 when the group has none).
PositionOf(seq_id) ==
    IF \E j \in 1..Len(last.pre.seqs) : last.pre.seqs[j].seq_id = seq_id
    THEN CHOOSE j \in 1..Len(last.pre.seqs) : last.pre.seqs[j].seq_id = seq_id
    ELSE 0

\* The step output is one the engine produces: every sample was sampled for a
\* RUNNING sequence of the group, and no sequence has two samples.
SamplesOfRunning ==
    /\ \A k \in 1..Len(last.samples) :
          /\ PositionOf(last.samples[k].parent_seq_id) # 0
          /\ last.pre.seqs[PositionOf(last.samples[k].parent_seq_id)].status = "RUNNING"
    /\ \A k, m \in 1..Len(last.samples) :
          k # m => last.samples[k].parent_seq_id # last.samples[m].parent_seq_id

\* The sequence at position j sampled this token in the step.
Sampled(j, token) ==
    \E k \in 1..Len(last.samples) :
        /\ last.samples[k].output_token = token
        /\ last.samples[k].parent_seq_id = last.pre.seqs[j].seq_id

\* C18: _handle_sync moves each RUNNING sequence that sampled the sync token
\* to BLOCKED, and leaves the status of every sequence that did not sample it
\* as it was.
C18_SyncBlocksSampler ==
    (LastSync /\ SamplesOfRunning) =>
        /\ Len(seq_group.seqs) = Len(last.pre.seqs)
        /\ \A j \in 1..Len(last.pre.seqs) :
              IF Sampled(j, SyncTokenId)
              THEN seq_group.seqs[j].status = "BLOCKED"
              ELSE seq_group.seqs[j].status = last.pre.seqs[j].status

\* The k-th sample refers to no sequence of the group: its parent_seq_id is
\* the id of none, or its position is past the end of the group.
RefersToNoSequence(k) ==
    \/ PositionOf(last.samples[k].parent_seq_id) = 0
    \/ k - 1 >= Len(last.pre.seqs)

\* C19: when every sync-token sample of the output refers to no sequence of
\* the group, _handle_sync changes the status of no sequence.
C19_AbsentSequenceNoOp ==
    (LastSync /\ \A k \in 1..Len(last.samples) :
                    last.samples[k].output_token = SyncTokenId => RefersToNoSequence(k))
        => seq_group = last.pre

\* The positions of the promise-token samples among the first k samples.
PromisesUpTo(k) == {m \in 1..k : last.samples[m].output_token = PromiseTokenId}

\* C20: _handle_promise adds one child per promise-token sample: the child is
\* WAITING, its id is the next one of the counter, unused in the group, and
\* its parent link is the id of the sequence the sample was sampled for; that
\* sequence is BLOCKED afterwards.
C20_PromiseSpawnsChild ==
    (LastPromise /\ SamplesOfRunning) =>
        LET n == Cardinality(PromisesUpTo(Len(last.samples)))
            before == Len(last.pre.seqs)
        IN  /\ Len(seq_group.seqs) = before + n
            /\ seq_counter = last.pre_counter + n
            /\ \A k \in PromisesUpTo(Len(last.samples)) :
                  LET child == seq_group.seqs[before + Cardinality(PromisesUpTo(k))]
                  IN  /\ child.status = "WAITING"
                      /\ child.seq_id = last.pre_counter + Cardinality(PromisesUpTo(k)) - 1
                      /\ \A j \in 1..before : last.pre.seqs[j].seq_id # child.seq_id
                      /\ child.parent_seq_id = last.samples[k].parent_seq_id
                      /\ seq_group.seqs[PositionOf(last.samples[k].parent_seq_id)].status
                            = "BLOCKED"

---------------------------------------------------------------------------
(* The whole hook step: process_outputs, the unblock scan and the merge.   *)

StepMaxSeqs == 3    \* most sequences in the group, whole-step runs
StepMaxAppends == 2 \* most append_prompt_tokens calls recorded

\* Sequence.is_blocked, Sequence.is_finished and Sequence.is_parent: a parent
\* is a sequence that some sequence of the group names in its parent link.
IsBlocked(seq) == seq.status = "BLOCKED"
IsFinished(seq) == seq.status = "FINISHED_STOPPED"
IsParent(seqs, seq) == \E c \in 1..Len(seqs) : seqs[c].parent_seq_id = seq.seq_id

\* seq.output_text of the sequence with this id; a new sequence has "".
OutputTextOf(group, seq_id) ==
    IF seq_id \in DOMAIN group.output_text THEN group.output_text[seq_id] ELSE EmptyStr

\* "\n".join(texts)
RECURSIVE JoinLines(_)
JoinLines(texts) ==
    IF Len(texts) = 0 THEN EmptyStr
    ELSE IF Len(texts) = 1 THEN texts[1]
    ELSE texts[1] \o <<"\n">> \o JoinLines(Tail(texts))

\* A mutant of ComputeMergedOutput: children without output are kept.
ComputeMergedOutputKeepEmpty(texts) ==
    JoinLines([k \in 1..Len(texts) |-> IF texts[k] = NoneStr THEN EmptyStr ELSE texts[k]])

\* _compute_merged_output on the children's output texts
ComputeMergedOutput(texts) ==
    LET merged_outputs == SelectSeq(texts, LAMBDA t : t # NoneStr /\ t # EmptyStr)
    IN  IF Len(merged_outputs) > 0 THEN JoinLines(merged_outputs) ELSE EmptyStr

\* _merge_child_results for the parent at position k of the group
MergeChildResults(group, k) ==
    LET parent_seq == group.seqs[k]
        child_seqs == SelectSeq(group.seqs,
                          LAMBDA seq : seq.parent_seq_id = parent_seq.seq_id /\ IsFinished(seq))
        merged_output == ComputeMergedOutput(
                             [c \in 1..Len(child_seqs) |-> OutputTextOf(group, child_seqs[c].seq_id)])
    IN  IF merged_output # EmptyStr
        THEN [group EXCEPT !.appended =
                 Append(@, [seq_id |-> parent_seq.seq_id, tokens |-> merged_output])]
        ELSE group

\* A mutant of AllChildrenFinished: one finished child is enough.
AnyChildFinished(seqs, seq) ==
    \E c \in 1..Len(seqs) : seqs[c].parent_seq_id = seq.seq_id /\ IsFinished(seqs[c])

\* A mutant of AllChildrenFinished: a BLOCKED child counts as done.
AllChildrenFinishedOrBlocked(seqs, seq) ==
    \A c \in 1..Len(seqs) :
        seqs[c].parent_seq_id = seq.seq_id => (IsFinished(seqs[c]) \/ IsBlocked(seqs[c]))

\* all(child.is_finished() for child in seqs if child.parent_seq_id == seq.seq_id)
AllChildrenFinished(seqs, seq) ==
    \A c \in 1..Len(seqs) : seqs[c].parent_seq_id = seq.seq_id => IsFinished(seqs[c])

\* _handle_unblock from position k on; st carries the group and, in call
\* order, the seq_ids _merge_child_results was called for.
RECURSIVE HandleUnblockFrom(_, _)
HandleUnblockFrom(st, k) ==
    IF k > Len(st.group.seqs) THEN st
    ELSE LET seq == st.group.seqs[k]
         IN  IF IsBlocked(seq) /\ IsParent(st.group.seqs, seq)
                  /\ AllChildrenFinished(st.group.seqs, seq)
             THEN HandleUnblockFrom(
                      [group |-> MergeChildResults(
                                     [st.group EXCEPT !.seqs[k].status = "WAITING"], k),
                       merged |-> Append(st.merged, seq.seq_id)],
                      k + 1)
             ELSE HandleUnblockFrom(st, k + 1)

\* A mutant of HandleUnblock: the scan passes over the first sequence.
HandleUnblockSkipFirst(group) == HandleUnblockFrom([group |-> group, merged |-> <<>>], 2)

\* _handle_unblock
HandleUnblock(group) == HandleUnblockFrom([group |-> group, merged |-> <<>>], 1)

\* One element of the outputs list of a step: a CompletionSequenceGroupOutput
\* with its samples, a PoolingSequenceGroupOutput, or None.
CompletionSequenceGroupOutput(samples) == [kind |-> "completion", samples |-> samples]
PoolingSequenceGroupOutput == [kind |-> "pooling", samples |-> <<>>]
NoneOutput == [kind |-> "None", samples |-> <<>>]

\* What _run_sequence_hook leaves when it returns at once.
HookSkipped(group, counter) ==
    [group |-> group, seq_counter |-> counter, scan_pre |-> group,
     merged |-> <<>>, calls |-> <<>>]

\* A mutant of RunSequenceHook: promise detection before sync detection, the
\* unblock scan first of all.
RunSequenceHookReordered(group, counter, outputs) ==
    IF Len(outputs) = 0 \/ outputs[1].kind # "completion"
    THEN HookSkipped(group, counter)
    ELSE LET output == outputs[1]
             unblocked == HandleUnblock(group)
             promised == HandlePromise(unblocked.group.seqs, counter, output.samples,
                                       PromiseTokenId)
             synced == HandleSync(promised.seqs, output.samples, SyncTokenId)
         IN  [group |-> [unblocked.group EXCEPT !.seqs = synced],
              seq_counter |-> promised.seq_counter,
              scan_pre |-> group,
              merged |-> unblocked.merged,
              calls |-> <<"_handle_unblock", "_handle_promise", "_handle_sync">>]

\* A mutant of RunSequenceHook: no check of the outputs list.
RunSequenceHookUnchecked(group, counter, outputs) ==
    LET samples == IF Len(outputs) = 0 THEN <<>> ELSE outputs[Len(outputs)].samples
        synced == HandleSync(group.seqs, samples, SyncTokenId)
        promised == HandlePromise(synced, counter, samples, PromiseTokenId)
        scan_pre == [group EXCEPT !.seqs = promised.seqs]
        unblocked == HandleUnblock(scan_pre)
    IN  [group |-> unblocked.group, seq_counter |-> promised.seq_counter,
         scan_pre |-> scan_pre, merged |-> unblocked.merged,
         calls |-> <<"_handle_sync", "_handle_promise", "_handle_unblock">>]

\* _run_sequence_hook: the group and the counter after it, the group as the
\* unblock scan found it, the seq_ids merged into, and the handlers called.
RunSequenceHook(group, counter, outputs) ==
    IF Len(outputs) = 0 \/ outputs[1].kind # "completion"
    THEN HookSkipped(group, counter)
    ELSE LET output == outputs[1]
             synced == HandleSync(group.seqs, output.samples, SyncTokenId)
             promised == HandlePromise(synced, counter, output.samples, PromiseTokenId)
             scan_pre == [group EXCEPT !.seqs = promised.seqs]
             unblocked == HandleUnblock(scan_pre)
         IN  [group |-> unblocked.group,
              seq_counter |-> promised.seq_counter,
              scan_pre |-> scan_pre,
              merged |-> unblocked.merged,
              calls |-> <<"_handle_sync", "_handle_promise", "_handle_unblock">>]

\* The output texts a finished sequence may carry: None, "", "a", "b".
OutputTexts == {NoneStr, EmptyStr, <<"a">>, <<"b">>}

\* The groups the whole-step runs start from: a new request's one RUNNING
\* sequence, and two BLOCKED sequences that name each other as parent.
StepGroups ==
    {[seqs |-> <<Sequence(1, "RUNNING", NoParentSeqId)>>,
      output_text |-> EmptyDict, appended |-> <<>>],
     [seqs |-> <<Sequence(1, "BLOCKED", 2), Sequence(2, "BLOCKED", 1)>>,
      output_text |-> EmptyDict, appended |-> <<>>]}

\* The samples of a step: one for each RUNNING sequence of the group, in
\* group order, each with the token sampled for it.
StepTokens == {SyncTokenId, PromiseTokenId, NormalTokenId}
StepSampleLists(seqs) ==
    LET running == SelectSeq(seqs, LAMBDA seq : seq.status = "RUNNING")
    IN  {[k \in 1..Len(running) |-> SequenceOutput(running[k].seq_id, tokens[k])] :
            tokens \in [1..Len(running) -> StepTokens]}

\* The outputs lists of a step: none, one element of each kind, and a
\* completion output behind a None.
StepOutputs(seqs) ==
    {<<>>, <<NoneOutput>>, <<PoolingSequenceGroupOutput>>} \cup
    {<<CompletionSequenceGroupOutput(samples)>> : samples \in StepSampleLists(seqs)} \cup
    {<<NoneOutput, CompletionSequenceGroupOutput(samples)>> :
        samples \in StepSampleLists(seqs)}

InitStep ==
    /\ NoCollector
    /\ SetParserInit
    /\ last = NoCall
    /\ NewEngineObjects
    /\ completed = NothingCompleted
    /\ solo = EmptyDict
    /\ script = NoScript
    /\ seq_group \in StepGroups
    /\ seq_counter = HookFirstFreeId

WithinStepBound(group) ==
    /\ Len(group.seqs) <= StepMaxSeqs
    /\ Len(group.appended) <= StepMaxAppends

\* process_outputs: the hook, then the parent class's process_outputs with
\* the arguments it was given.
ProcessOutputs(outputs, is_async) ==
    LET hook == RunSequenceHook(seq_group, seq_counter, outputs)
    IN  /\ Idle
        /\ WithinStepBound(hook.group)
        /\ seq_group' = hook.group
        /\ seq_counter' = hook.seq_counter
        /\ last' = [op |-> "process_outputs", outputs |-> outputs, is_async |-> is_async,
                    pre |-> seq_group, pre_counter |-> seq_counter,
                    scan_pre |-> hook.scan_pre, merged |-> hook.merged,
                    calls |-> Append(hook.calls, "super().process_outputs"),
                    super_args |-> [outputs |-> outputs, is_async |-> is_async]]
        /\ UNCHANGED parser_vars

\* _run_sequence_hook called on its own
CallRunSequenceHook(outputs) ==
    LET hook == RunSequenceHook(seq_group, seq_counter, outputs)
    IN  /\ Idle
        /\ WithinStepBound(hook.group)
        /\ seq_group' = hook.group
        /\ seq_counter' = hook.seq_counter
        /\ last' = [op |-> "_run_sequence_hook", outputs |-> outputs,
                    pre |-> seq_group, pre_counter |-> seq_counter,
                    scan_pre |-> hook.scan_pre, merged |-> hook.merged,
                    calls |-> hook.calls]
        /\ UNCHANGED parser_vars

\* _handle_unblock called on its own
CallHandleUnblock ==
    LET unblocked == HandleUnblock(seq_group)
    IN  /\ Idle
        /\ WithinStepBound(unblocked.group)
        /\ seq_group' = unblocked.group
        /\ last' = [op |-> "_handle_unblock", pre |-> seq_group, pre_counter |-> seq_counter,
                    scan_pre |-> seq_group, merged |-> unblocked.merged,
                    calls |-> <<"_handle_unblock">>]
        /\ UNCHANGED seq_counter
        /\ UNCHANGED parser_vars

\* _merge_child_results called on its own for the sequence at position k
CallMergeChildResults(k) ==
    LET group == MergeChildResults(seq_group, k)
    IN  /\ Idle
        /\ WithinStepBound(group)
        /\ seq_group' = group
        /\ last' = [op |-> "_merge_child_results", parent |-> k,
                    pre |-> seq_group, pre_counter |-> seq_counter]
        /\ UNCHANGED seq_counter
        /\ UNCHANGED parser_vars

\* The scheduler takes up a WAITING sequence.
Schedule(k) ==
    /\ Idle
    /\ seq_group.seqs[k].status = "WAITING"
    /\ seq_group' = [seq_group EXCEPT !.seqs[k].status = "RUNNING"]
    /\ UNCHANGED <<seq_counter, last>>
    /\ UNCHANGED parser_vars

\* A RUNNING sequence finishes with some output text.
Finish(k, text) ==
    /\ Idle
    /\ seq_group.seqs[k].status = "RUNNING"
    /\ seq_group' = [seq_group EXCEPT
                        !.seqs[k].status = "FINISHED_STOPPED",
                        !.output_text = Put(@, seq_group.seqs[k].seq_id, text)]
    /\ UNCHANGED <<seq_counter, last>>
    /\ UNCHANGED parser_vars

NextStep ==
    \/ Idle /\ \E outputs \in StepOutputs(seq_group.seqs), is_async \in BOOLEAN :
                  ProcessOutputs(outputs, is_async)
    \/ Idle /\ \E outputs \in StepOutputs(seq_group.seqs) : CallRunSequenceHook(outputs)
    \/ CallHandleUnblock
    \/ \E k \in 1..Len(seq_group.seqs) : CallMergeChildResults(k)
    \/ \E k \in 1..Len(seq_group.seqs) : Schedule(k)
    \/ \E k \in 1..Len(seq_group.seqs), text \in OutputTexts : Finish(k, text)
    \/ Forward

SpecStep == InitStep /\ [][NextStep]_vars

---------------------------------------------------------------------------
(* Properties under SpecStep *)

LastProcessOutputs == last.op = "process_outputs"
LastRunSequenceHook == last.op = "_run_sequence_hook"
LastHandleUnblock == last.op = "_handle_unblock"
LastMergeChildResults == last.op = "_merge_child_results"

\* The last call was a hook step, and one in which the unblock scan ran.
LastHookStep == LastProcessOutputs \/ LastRunSequenceHook \/ LastHandleUnblock
LastScan ==
    /\ LastHookStep
    /\ \E c \in 1..Len(last.calls) : last.calls[c] = "_handle_unblock"

\* The positions of the sequences whose parent link names the one at j.
ChildrenOf(seqs, j) == {c \in 1..Len(seqs) : seqs[c].parent_seq_id = seqs[j].seq_id}

\* How often _merge_child_results was called for this seq_id in the last call.
MergesInto(seq_id) == Cardinality({m \in 1..Len(last.merged) : last.merged[m] = seq_id})

\* What append_prompt_tokens was called with for this seq_id, in call order.
AppendedTo(group, seq_id) == SelectSeq(group.appended, LAMBDA a : a.seq_id = seq_id)

\* C21: a hook step leaves BLOCKED every BLOCKED sequence that has a child
\* which is not FINISHED, calls no merge for it and appends nothing to its
\* prompt.
C21_BlockedWhileChildUnfinished ==
    LastHookStep =>
        \A j \in 1..Len(last.pre.seqs) :
            (/\ last.pre.seqs[j].status = "BLOCKED"
             /\ \E c \in ChildrenOf(last.pre.seqs, j) :
                    last.pre.seqs[c].status # "FINISHED_STOPPED")
            => /\ seq_group.seqs[j].status = "BLOCKED"
               /\ MergesInto(last.pre.seqs[j].seq_id) = 0
               /\ AppendedTo(seq_group, last.pre.seqs[j].seq_id)
                      = AppendedTo(last.pre, last.pre.seqs[j].seq_id)

\* The scan ran on a BLOCKED parent with one child FINISHED and one RUNNING.
C21_Witness ==
    /\ LastHandleUnblock
    /\ Len(last.pre.seqs) = 3
    /\ last.pre.seqs[1].status = "BLOCKED"
    /\ ChildrenOf(last.pre.seqs, 1) = {2, 3}
    /\ last.pre.seqs[2].status = "FINISHED_STOPPED"
    /\ last.pre.seqs[3].status = "RUNNING"
    /\ seq_group.seqs[1].status = "BLOCKED"

\* The sequence at position j was, when the scan started, a BLOCKED parent
\* all of whose children were FINISHED.
ReadyToUnblock(j) ==
    /\ last.scan_pre.seqs[j].status = "BLOCKED"
    /\ ChildrenOf(last.scan_pre.seqs, j) # {}
    /\ \A c \in ChildrenOf(last.scan_pre.seqs, j) :
           last.scan_pre.seqs[c].status = "FINISHED_STOPPED"

\* C22: an unblock scan moves every BLOCKED parent whose children are all
\* FINISHED to WAITING and calls the merge for it exactly once; it calls the
\* merge for no other sequence and changes no other status.
C22_UnblockWhenAllChildrenFinished ==
    LastScan =>
        /\ Len(seq_group.seqs) = Len(last.scan_pre.seqs)
        /\ \A j \in 1..Len(last.scan_pre.seqs) :
              IF ReadyToUnblock(j)
              THEN /\ seq_group.seqs[j].status = "WAITING"
                   /\ MergesInto(last.scan_pre.seqs[j].seq_id) = 1
              ELSE /\ seq_group.seqs[j].status = last.scan_pre.seqs[j].status
                   /\ MergesInto(last.scan_pre.seqs[j].seq_id) = 0

\* Scenario E's second half: both children of a BLOCKED parent are FINISHED
\* when the scan runs, and their texts "a" and "b" are merged into it.
C22_Witness ==
    /\ LastHandleUnblock
    /\ Len(last.pre.seqs) = 3
    /\ last.pre.seqs[1].status = "BLOCKED"
    /\ ChildrenOf(last.pre.seqs, 1) = {2, 3}
    /\ last.pre.seqs[2].status = "FINISHED_STOPPED"
    /\ last.pre.seqs[3].status = "FINISHED_STOPPED"
    /\ seq_group.seqs[1].status = "WAITING"
    /\ last.pre.appended = <<>>
    /\ seq_group.appended = <<[seq_id |-> 1, tokens |-> <<"a", "\n", "b">>]>>

\* The output texts, in group order, of the FINISHED children of the sequence
\* at position j that have a text which is neither None nor "".
RECURSIVE ChildTextsFrom(_, _, _)
ChildTextsFrom(group, j, c) ==
    IF c > Len(group.seqs) THEN <<>>
    ELSE LET text == OutputTextOf(group, group.seqs[c].seq_id)
         IN  (IF /\ c \in ChildrenOf(group.seqs, j)
                 /\ group.seqs[c].status = "FINISHED_STOPPED"
                 /\ text # NoneStr /\ Len(text) > 0
              THEN <<text>> ELSE <<>>) \o ChildTextsFrom(group, j, c + 1)

\* The texts with a newline between each two.
RECURSIVE NewlineJoined(_, _)
NewlineJoined(texts, k) ==
    IF k > Len(texts) THEN <<>>
    ELSE texts[k] \o (IF k < Len(texts) THEN <<"\n">> ELSE <<>>) \o NewlineJoined(texts, k + 1)

\* What a merge into the sequence at position j appends to the log.
MergeAppends(group, j) ==
    IF ChildTextsFrom(group, j, 1) = <<>> THEN <<>>
    ELSE <<[seq_id |-> group.seqs[j].seq_id,
            tokens |-> NewlineJoined(ChildTextsFrom(group, j, 1), 1)]>>

\* What the merges of the last scan append, from the m-th merge on.
RECURSIVE ScanAppends(_)
ScanAppends(m) ==
    IF m > Len(last.merged) THEN <<>>
    ELSE MergeAppends(last.scan_pre,
                      CHOOSE j \in 1..Len(last.scan_pre.seqs) :
                          last.scan_pre.seqs[j].seq_id = last.merged[m])
         \o ScanAppends(m + 1)

\* C23: a merge appends to the parent's prompt the output texts of its
\* FINISHED children, in group order, joined by newlines, leaving out the
\* children whose text is None or ""; it appends nothing when that leaves no
\* text.
C23_MergeContent ==
    /\ LastMergeChildResults =>
          /\ seq_group.appended = last.pre.appended \o MergeAppends(last.pre, last.parent)
          /\ seq_group.seqs = last.pre.seqs
    /\ LastScan =>
          seq_group.appended = last.scan_pre.appended \o ScanAppends(1)

\* A merge into a parent with children "a" and None (or ""): only "a" is
\* appended.
C23_Witness ==
    /\ LastScan
    /\ last.merged = <<1>>
    /\ Len(last.scan_pre.seqs) = 3
    /\ ChildrenOf(last.scan_pre.seqs, 1) = {2, 3}
    /\ OutputTextOf(last.scan_pre, last.scan_pre.seqs[2].seq_id) = <<"a">>
    /\ OutputTextOf(last.scan_pre, last.scan_pre.seqs[3].seq_id) \in {NoneStr, EmptyStr}
    /\ seq_group.appended = last.scan_pre.appended \o <<[seq_id |-> 1, tokens |-> <<"a">>]>>

\* The sequences at positions i and j are BLOCKED and each other's parent.
BlockedCycle(seqs, i, j) ==
    /\ i # j
    /\ seqs[i].parent_seq_id = seqs[j].seq_id
    /\ seqs[j].parent_seq_id = seqs[i].seq_id
    /\ seqs[i].status = "BLOCKED"
    /\ seqs[j].status = "BLOCKED"

\* C24: two BLOCKED sequences that are each other's parent are both BLOCKED
\* after every step, and no merge is ever called for either.
C24_CycleStaysBlocked ==
    [][\A i, j \in 1..Len(seq_group.seqs) :
          BlockedCycle(seq_group.seqs, i, j) =>
              /\ BlockedCycle(seq_group'.seqs, i, j)
              /\ (last'.op \in {"process_outputs", "_run_sequence_hook", "_handle_unblock"}
                  /\ last' # last) =>
                     \A m \in 1..Len(last'.merged) :
                         last'.merged[m] \notin {seq_group.seqs[i].seq_id,
                                                  seq_group.seqs[j].seq_id}]_vars

\* The unblock scan has run on the cycle, and returned.
C24_Witness ==
    /\ LastScan
    /\ Len(last.scan_pre.seqs) >= 2
    /\ BlockedCycle(last.scan_pre.seqs, 1, 2)
    /\ BlockedCycle(seq_group.seqs, 1, 2)

\* The first element of the outputs list is a completion output.
HookRuns(outputs) == Len(outputs) > 0 /\ outputs[1].kind = "completion"

\* C25: process_outputs calls _handle_sync, _handle_promise and
\* _handle_unblock in that order, once each, and then the parent class's
\* process_outputs, with the outputs and is_async it was given; the group
\* is what the three handlers, applied in that order, make of it. When the
\* outputs list makes the hook return at once, only the parent class runs.
C25_StepOrdering ==
    LastProcessOutputs =>
        /\ last.super_args = [outputs |-> last.outputs, is_async |-> last.is_async]
        /\ last.calls[Len(last.calls)] = "super().process_outputs"
        /\ IF HookRuns(last.outputs)
           THEN LET samples == last.outputs[1].samples
                    synced == HandleSync(last.pre.seqs, samples, SyncTokenId)
                    promised == HandlePromise(synced, last.pre_counter, samples,
                                              PromiseTokenId)
                    unblocked == HandleUnblock([last.pre EXCEPT !.seqs = promised.seqs])
                IN  /\ last.calls = <<"_handle_sync", "_handle_promise", "_handle_unblock",
                                      "super().process_outputs">>
                    /\ seq_group = unblocked.group
                    /\ seq_counter = promised.seq_counter
                    /\ last.merged = unblocked.merged
           ELSE last.calls = <<"super().process_outputs">>

\* A step in which the sync handler blocked a RUNNING parent and the scan,
\* running after it, moved it on.
C25_Witness ==
    /\ LastProcessOutputs
    /\ HookRuns(last.outputs)
    /\ last.outputs[1].samples = <<SequenceOutput(1, SyncTokenId)>>
    /\ last.pre.seqs[1].status = "RUNNING"
    /\ last.scan_pre.seqs[1].status = "BLOCKED"
    /\ last.merged = <<1>>

\* C26: when the outputs list is empty, or its first element is None or not
\* a completion output, _run_sequence_hook changes no sequence, spawns no
\* child, takes no id from the counter, and runs no handler and no merge.
C26_NoOutputsNoOp ==
    ((LastProcessOutputs \/ LastRunSequenceHook) /\ ~HookRuns(last.outputs)) =>
        /\ seq_group = last.pre
        /\ seq_counter = last.pre_counter
        /\ last.merged = <<>>
        /\ \A c \in 1..Len(last.calls) : last.calls[c] = "super().process_outputs"

\* The hook was given [None, output] with a sync sample in the output, while
\* a RUNNING sequence was there to block.
C26_Witness ==
    /\ LastRunSequenceHook
    /\ Len(last.outputs) = 2
    /\ last.outputs[1] = NoneOutput
    /\ last.outputs[2].samples = <<SequenceOutput(1, SyncTokenId)>>
    /\ last.pre.seqs[1].status = "RUNNING"
    /\ seq_group = last.pre

\* C27: after process_outputs, every sequence that was RUNNING and for which
\* the step sampled the sync token is BLOCKED.
C27_SyncSamplerBlockedAfterStep ==
    (LastProcessOutputs /\ HookRuns(last.outputs)) =>
        \A j \in 1..Len(last.pre.seqs) :
            (/\ last.pre.seqs[j].status = "RUNNING"
             /\ \E k \in 1..Len(last.outputs[1].samples) :
                    /\ last.outputs[1].samples[k].parent_seq_id = last.pre.seqs[j].seq_id
                    /\ last.outputs[1].samples[k].output_token = SyncTokenId)
            => seq_group.seqs[j].status = "BLOCKED"

---------------------------------------------------------------------------
(* RequestOutputCollector (vllm/v1/engine/output_processor.py): the slot   *)
(* one producer puts RequestOutputs into and one consumer task takes them  *)
(* from.                                                                   *)

MaxPuts == 3        \* most put calls in a run

\* A RequestOutput is held as the list of the puts merged into it; an
\* Exception has none.
RequestOutput(parts) == [kind |-> "RequestOutput", parts |-> parts]
ExceptionOutput == [kind |-> "Exception", parts |-> <<>>]

\* RequestOutput.add: the next output is merged into this one.
RequestOutputAdd(self, next_output, aggregate) ==
    [self EXCEPT !.parts = @ \o next_output.parts]

\* A mutant of CollectorPut: the newest output takes the slot.
CollectorPutOverwrite(c, output) == [c EXCEPT !.output = output, !.ready = TRUE]

\* put
CollectorPut(c, output) ==
    IF c.output.kind = "None" \/ output.kind = "Exception"
    THEN [c EXCEPT !.output = output, !.ready = TRUE]
    ELSE IF c.output.kind = "RequestOutput"
         THEN [c EXCEPT !.output = RequestOutputAdd(c.output, output, c.aggregate)]
         ELSE c

\* A get_nowait that raises a pending Exception and leaves it in the slot.
CollectorGetNowaitKeepsException(c) ==
    LET output == c.output
    IN  [collector |-> IF output.kind = "RequestOutput"
                       THEN [c EXCEPT !.output = NoOutput, !.ready = FALSE]
                       ELSE c,
         raises |-> output.kind = "Exception",
         returns |-> IF output.kind = "Exception" THEN NoOutput ELSE output]

\* get_nowait, and what get does once the slot is not None: the slot is
\* emptied, the event cleared, an Exception raised, anything else returned.
CollectorGetNowait(c) ==
    LET output == c.output
    IN  [collector |-> IF output.kind # "None"
                       THEN [c EXCEPT !.output = NoOutput, !.ready = FALSE]
                       ELSE c,
         raises |-> output.kind = "Exception",
         returns |-> IF output.kind = "Exception" THEN NoOutput ELSE output]

\* What the consumer has got so far, with one more return.
Delivered(h, got) ==
    IF got.raises \/ got.returns.kind = "None" THEN h.delivered
    ELSE Append(h.delivered, got.returns)

InitCollect ==
    /\ NoSequenceGroup
    /\ SetParserInit
    /\ last = NoCall
    /\ NewEngineObjects
    /\ completed = NothingCompleted
    /\ solo = EmptyDict
    /\ script = NoScript
    /\ \E aggregate \in BOOLEAN : collector = NewCollector(aggregate)
    /\ handoff = NoHandoff

tool_vars == <<chunks_mapping, tool_states, yielded_indices, accumulated_text,
               accumulated_token_ids, completed, solo, script, seq_group, seq_counter,
               seq_parser, request_state, output_processor>>

\* The producer puts its next RequestOutput, or an Exception.
CallPut(output) ==
    /\ handoff.puts < MaxPuts
    /\ collector' = CollectorPut(collector, output)
    /\ handoff' = [handoff EXCEPT !.puts = @ + 1,
                                  !.exception_put = @ \/ output.kind = "Exception"]
    /\ last' = [op |-> "put", output |-> output, pre |-> collector]
    /\ UNCHANGED tool_vars

\* The consumer calls get_nowait.
CallGetNowait ==
    LET got == CollectorGetNowait(collector)
    IN  /\ handoff.consumer = "idle"
        /\ collector' = got.collector
        /\ handoff' = [handoff EXCEPT !.delivered = Delivered(handoff, got)]
        /\ last' = [op |-> "get_nowait", pre |-> collector, suspended |-> FALSE,
                    raises |-> got.raises, returns |-> got.returns]
        /\ UNCHANGED tool_vars

\* get, from the test of the slot on: with the slot None the task awaits
\* ready.wait(), else it takes the output.
GetFromLoop(waited) ==
    LET got == CollectorGetNowait(collector)
    IN  IF collector.output.kind = "None"
        THEN /\ handoff' = [handoff EXCEPT !.consumer = "waiting"]
             /\ last' = [op |-> "get", pre |-> collector, suspended |-> TRUE,
                         waited |-> waited, raises |-> FALSE, returns |-> NoOutput]
             /\ UNCHANGED collector
        ELSE /\ collector' = got.collector
             /\ handoff' = [handoff EXCEPT !.consumer = "idle",
                                           !.delivered = Delivered(handoff, got)]
             /\ last' = [op |-> "get", pre |-> collector, suspended |-> FALSE,
                         waited |-> waited, raises |-> got.raises, returns |-> got.returns]

\* The consumer calls get.
CallGet ==
    /\ handoff.consumer = "idle"
    /\ GetFromLoop(FALSE)
    /\ UNCHANGED tool_vars

\* The ready event is set: the task waiting in get goes round its loop.
ResumeGet ==
    /\ handoff.consumer = "waiting"
    /\ collector.ready
    /\ GetFromLoop(TRUE)
    /\ UNCHANGED tool_vars

NextCollect ==
    \/ CallPut(RequestOutput(<<handoff.puts + 1>>))
    \/ CallPut(ExceptionOutput)
    \/ CallGetNowait
    \/ CallGet
    \/ ResumeGet

SpecCollect == InitCollect /\ [][NextCollect]_vars

---------------------------------------------------------------------------
(* Properties under SpecCollect *)

\* The puts merged into the outputs of a list, in order.
RECURSIVE PartsOf(_)
PartsOf(outputs) == IF Len(outputs) = 0 THEN <<>> ELSE Head(outputs).parts \o PartsOf(Tail(outputs))

LastTook == last.op \in {"get", "get_nowait"} /\ ~last.suspended

\* C28: as long as no Exception is put, the outputs the consumer got,
\* followed by the pending one, hold every put exactly once and in order,
\* each output got holding one put or the puts merged while it was pending;
\* get returns an output, never None; get_nowait returns None only when the
\* slot was empty; after either the slot is empty and the event clear; and
\* the event is set exactly when the slot holds an output.
C28_HandOffLosesNothing ==
    ~handoff.exception_put =>
        /\ PartsOf(handoff.delivered) \o collector.output.parts
               = [k \in 1..handoff.puts |-> k]
        /\ \A d \in 1..Len(handoff.delivered) : Len(handoff.delivered[d].parts) >= 1
        /\ collector.ready <=> collector.output.kind # "None"
        /\ LastTook =>
              /\ ~last.raises
              /\ last.returns = last.pre.output
              /\ collector.output = NoOutput
              /\ ~collector.ready
              /\ last.op = "get" => last.returns.kind = "RequestOutput"
        /\ (last.op = "get" /\ last.suspended) => last.pre.output.kind = "None"

\* The consumer got the first output on its own and the next two merged,
\* the last of them by a get that had to wait.
C28_Witness ==
    /\ ~handoff.exception_put
    /\ handoff.delivered = <<RequestOutput(<<1>>), RequestOutput(<<2, 3>>)>>
    /\ last.op = "get"
    /\ last.waited
    /\ ~last.suspended
    /\ collector.output = NoOutput

---------------------------------------------------------------------------
(* Properties of emitted tool calls *)

\* The arguments text the fragments k.. of a batch append to index i.
RECURSIVE TextFor(_, _, _)
TextFor(batch, i, k) ==
    IF k > Len(batch) THEN <<>>
    ELSE (IF /\ batch[k].index = i
             /\ ~batch[k].function.is_none
             /\ batch[k].function.arguments # NoneStr
          THEN batch[k].function.arguments ELSE <<>>)
         \o TextFor(batch, i, k + 1)

\* C29: a call that hands fragments to get_tool_calls_from_deltas, for every
\* index of the request that was emitted before the call: the arguments text
\* of the index grows by the text of the batch's fragments for it and
\* brace_count moves by their '{' minus their '}', the call returns no
\* ToolCall for the index, and the ToolCall returned for it earlier is what
\* it was.
C29_EmittedIndexStillAccumulates ==
    [][(last.op = "none" /\ last'.op \in {"get", "process"}) =>
          LET r == last'.request_id
              batch == IngestedBatch'
          IN  \A i \in AllIndices :
                  (r \in DOMAIN yielded_indices /\ i \in yielded_indices[r]) =>
                      LET text == TextFor(batch, i, 1)
                      IN  /\ tool_states'[r][i].arguments = tool_states[r][i].arguments \o text
                          /\ tool_states'[r][i].brace_count =
                                 tool_states[r][i].brace_count
                                 + Occurrences(text, "{") - Occurrences(text, "}")
                          /\ i \notin Range(last'.emit_index)
                          /\ completed'[r][i] = completed[r][i]]_vars

\* Index 0 was emitted with "{}"; a later "}" has been appended to its
\* accumulator, the call returned nothing, and the emitted ToolCall still
\* reads "{}".
C29_Witness ==
    /\ LastGet
    /\ "A" \in DOMAIN last.pre.yielded_indices
    /\ 0 \in last.pre.yielded_indices["A"]
    /\ last.pre.tool_states["A"][0].arguments = <<"{", "}">>
    /\ tool_states["A"][0].arguments = <<"{", "}", "}">>
    /\ tool_states["A"][0].brace_count = -1
    /\ last.result.is_none
    /\ Len(completed["A"][0]) = 1
    /\ completed["A"][0][1].function.arguments = <<"{", "}">>

\* The ToolCalls returned so far.
EmittedToolCalls ==
    UNION {Range(completed[r][i]) : r \in AllRequests, i \in AllIndices}

\* C30 as stated: the arguments of every emitted ToolCall have as many '}'
\* as '{', at least one '{', and no prefix with more '}' than '{'.
C30_ArgumentsBraceClosed ==
    \A tc \in EmittedToolCalls :
        LET text == tc.function.arguments
        IN  /\ Occurrences(text, "{") = Occurrences(text, "}")
            /\ Occurrences(text, "{") >= 1
            /\ \A n \in 1..Len(text) :
                   Occurrences(SubSeq(text, 1, n), "}") <= Occurrences(SubSeq(text, 1, n), "{")

\* C30: the arguments of every emitted ToolCall have as many '}' as '{' and
\* at least one '{'; the order of the braces is not examined.
C30_ArgumentsBraceBalanced ==
    \A tc \in EmittedToolCalls :
        LET text == tc.function.arguments
        IN  /\ Occurrences(text, "{") = Occurrences(text, "}")
            /\ Occurrences(text, "{") >= 1

\* A ToolCall was emitted with the arguments "}{".
C30_Witness ==
    \E tc \in EmittedToolCalls : tc.function.arguments = <<"}", "{">>

---------------------------------------------------------------------------
(* The header fields of an accumulator: fragments that carry or omit id,   *)
(* type and function name, with two ids and two names to tell writes apart.*)

FieldMaxBatch == 2      \* most DeltaToolCalls in one DeltaMessage, header-field runs

\* The fragment shapes of Fragments, without argument text: header fields
\* alone, a function with or without a name, or id, type and name at once.
FieldFragments ==
    {DeltaToolCall(0, id, type, NoFunction) :
        id \in ScriptIds \cup {None}, type \in Types \cup {None}}
    \cup {DeltaToolCall(0, None, None, DeltaFunctionCall(name, NoneStr)) :
             name \in ScriptNames \cup {None}}
    \cup {DeltaToolCall(0, id, type, DeltaFunctionCall(name, NoneStr)) :
             id \in ScriptIds, type \in Types, name \in ScriptNames}

NextFields ==
    \/ Idle /\ \E delta \in Deltas(FieldFragments, Parser, "A", FieldMaxBatch) :
                  Ingest("A", delta)
    \/ Reset("A")
    \/ Forward

SpecFields == Init /\ [][NextFields]_vars

(* Properties under SpecFields *)

HeaderFields == {"id", "type", "function_name"}

\* What a fragment carries for each header field; a fragment without a
\* function carries no name.
Carried(tool_call) ==
    [id |-> tool_call.id, type |-> tool_call.type,
     function_name |-> IF tool_call.function.is_none THEN None
                       ELSE tool_call.function.name]

\* The value of the last of the first k fragments of the batch that carries
\* the field for index i, old when none of them does.
RECURSIVE LastNonNull(_, _, _, _, _)
LastNonNull(batch, i, field, old, k) ==
    IF k = 0 THEN old
    ELSE IF batch[k].index = i /\ Carried(batch[k])[field] # None
         THEN Carried(batch[k])[field]
         ELSE LastNonNull(batch, i, field, old, k - 1)

\* C31: for id, type and function name of an accumulator a fragment that
\* carries a value overwrites the stored one - the last one of a batch wins -
\* and a fragment that carries none leaves it as it is; so a field that holds
\* a value holds one after every call that is not a reset of the request.
C31_FieldUpdatePolicy ==
    /\ LastGet =>
          \A i \in DOMAIN tool_states[last.request_id] : \A field \in HeaderFields :
              tool_states[last.request_id][i][field] =
                  LastNonNull(LastBatch, i, field,
                              IF i \in DOMAIN PreToolState THEN PreToolState[i][field]
                              ELSE None,
                              Len(LastBatch))
    /\ (~Idle /\ last.op # "clear") =>
          \A r \in DOMAIN last.pre.tool_states : \A i \in DOMAIN last.pre.tool_states[r] :
              \A field \in HeaderFields :
                  last.pre.tool_states[r][i][field] # None =>
                      /\ r \in DOMAIN tool_states
                      /\ i \in DOMAIN tool_states[r]
                      /\ tool_states[r][i][field] # None

\* The accumulator holds id call_1 and name get_weather; a batch brings id
\* call_2 and then a fragment without id, name or type: the id is call_2 and
\* the name is still get_weather.
C31_Witness ==
    /\ LastGet
    /\ 0 \in DOMAIN PreToolState
    /\ PreToolState[0].id = "call_1"
    /\ PreToolState[0].function_name = "get_weather"
    /\ Len(LastBatch) = 2
    /\ LastBatch[1].id = "call_2"
    /\ Carried(LastBatch[1]).function_name = None
    /\ Carried(LastBatch[2]) = [id |-> None, type |-> None, function_name |-> None]
    /\ tool_states["A"][0].id = "call_2"
    /\ tool_states["A"][0].function_name = "get_weather"

---------------------------------------------------------------------------
(* The context handed to the fragment extractor: get_delta of the          *)
(* sequence-keyed parser (vllm/engine/output_processor/                    *)
(* streaming_tool_parser.py) next to update_from_engine_output.            *)

DeltaMaxTokens == 2     \* most token ids a sequence or a request holds, context runs

\* Python's xs[:-n]: -0 is 0, so the slice is empty when n is 0.
AllButLast(xs, n) ==
    IF n = 0 \/ n >= Len(xs) THEN <<>> ELSE SubSeq(xs, 1, Len(xs) - n)

\* get_delta: the sequence after seq.data.get_delta_and_reset() and the
\* keyword arguments of extract_tool_calls_streaming.
GetDelta(seq) ==
    LET delta_token_ids == seq.new_output_token_ids
        current_token_ids == seq.token_ids
        previous_token_ids == AllButLast(current_token_ids, Len(delta_token_ids))
        current_text == seq.output_text
        delta_text == Decode(delta_token_ids)
        previous_text == AllButLast(current_text, Len(delta_text))
    IN  [seq |-> [seq EXCEPT !.new_output_token_ids = <<>>],
         context |-> [previous_text |-> previous_text,
                      current_text |-> current_text,
                      delta_text |-> delta_text,
                      previous_token_ids |-> previous_token_ids,
                      current_token_ids |-> current_token_ids,
                      delta_token_ids |-> delta_token_ids]]

InitDelta ==
    /\ NoCollector
    /\ SetParserInit
    /\ last = NoCall
    /\ NewEngineObjects
    /\ completed = NothingCompleted
    /\ solo = EmptyDict
    /\ script = NoScript
    /\ seq_group = [seqs |-> <<[seq_id |-> 0, token_ids |-> <<>>,
                                new_output_token_ids |-> <<>>, output_text |-> <<>>]>>]
    /\ seq_counter = 1

\* The engine appends a sampled token to the sequence and the detokenizer
\* extends its output text.
AppendTokenId(t) ==
    /\ Idle
    /\ Len(seq_group.seqs[1].token_ids) < DeltaMaxTokens
    /\ seq_group' = [seq_group EXCEPT
                        !.seqs[1].token_ids = Append(@, t),
                        !.seqs[1].new_output_token_ids = Append(@, t),
                        !.seqs[1].output_text = @ \o TokenText(t)]
    /\ UNCHANGED <<last, seq_counter>>
    /\ UNCHANGED parser_vars

\* The host calls get_delta on the group; the ghost keeps the context the
\* extractor was called with.
CallGetDelta ==
    LET out == GetDelta(seq_group.seqs[1])
    IN  /\ Idle
        /\ seq_group' = [seq_group EXCEPT !.seqs[1] = out.seq]
        /\ last' = [op |-> "get_delta", context |-> out.context]
        /\ UNCHANGED seq_counter
        /\ UNCHANGED parser_vars

DeltaUpdate(new_token_ids) ==
    /\ CallUpdateFromEngineOutput("A", new_token_ids, Extraction(FALSE, NoDelta))
    /\ Len(accumulated_token_ids'["A"]) <= DeltaMaxTokens
    /\ UNCHANGED <<solo, script>>
    /\ UNCHANGED hook_vars

NextDelta ==
    \/ \E t \in {0, 1, 2} : AppendTokenId(t)
    \/ CallGetDelta
    \/ \E new_token_ids \in DecTokens : DeltaUpdate(new_token_ids)
    \/ Forward

SpecDelta == InitDelta /\ [][NextDelta]_vars

(* Properties under SpecDelta *)

\* The context update_from_engine_output called the extractor with: the text
\* and token ids it found, the ones it stored, and the step's own.
UpdateContext ==
    [previous_text |-> TextOf(last.pre, last.request_id),
     current_text |-> accumulated_text[last.request_id],
     delta_text |-> Decode(last.new_token_ids),
     previous_token_ids |-> TokenIdsOf(last.pre, last.request_id),
     current_token_ids |-> accumulated_token_ids[last.request_id],
     delta_token_ids |-> last.new_token_ids]

Consistent(context) ==
    /\ context.current_text = context.previous_text \o context.delta_text
    /\ context.current_token_ids = context.previous_token_ids \o context.delta_token_ids

\* C32: on every invocation of the fragment extractor, by
\* update_from_engine_output and by get_delta, the current text is the previous
\* text followed by the delta text and the current token ids are the previous
\* token ids followed by the delta token ids, also when the delta is empty.
C32_ExtractorContextConsistent ==
    /\ last.op = "get_delta" => Consistent(last.context)
    /\ (last.op = "update" /\ last.new_token_ids # <<>>) => Consistent(UpdateContext)

---------------------------------------------------------------------------
(* Frame of the hook on sequence statuses, under SpecStep *)

\* The samples the last hook step scanned: those of the first output, none
\* when the hook returned at once or only the unblock scan was called.
ScannedSamples ==
    IF (LastProcessOutputs \/ LastRunSequenceHook) /\ HookRuns(last.outputs)
    THEN last.outputs[1].samples
    ELSE <<>>

\* The step sampled the sync or the promise token for the sequence at j.
OwnSpecialSample(j) ==
    \E k \in 1..Len(ScannedSamples) :
        /\ ScannedSamples[k].parent_seq_id = last.pre.seqs[j].seq_id
        /\ ScannedSamples[k].output_token \in {SyncTokenId, PromiseTokenId}

\* The sync and promise scans change a status only to BLOCKED and only of a
\* sequence with a special token of its own.
ScanBlocksOwnSamplerOnly ==
    \A j \in 1..Len(last.pre.seqs) :
        last.scan_pre.seqs[j].status # last.pre.seqs[j].status =>
            /\ last.scan_pre.seqs[j].status = "BLOCKED"
            /\ OwnSpecialSample(j)

\* Samples without a special token block nothing and spawn nothing.
NoSpecialTokenNoEffect ==
    (\A k \in 1..Len(ScannedSamples) :
        ScannedSamples[k].output_token \notin {SyncTokenId, PromiseTokenId})
    => /\ last.scan_pre = last.pre
       /\ seq_counter = last.pre_counter

\* The unblock scan moves BLOCKED parents whose children are all finished to
\* WAITING and leaves every other sequence as it found it.
UnblockChangesReadyParentsOnly ==
    /\ Len(seq_group.seqs) = Len(last.scan_pre.seqs)
    /\ \A j \in 1..Len(last.scan_pre.seqs) :
          LET seq == last.scan_pre.seqs[j]
          IN  IF IsBlocked(seq) /\ IsParent(last.scan_pre.seqs, seq)
                 /\ AllChildrenFinished(last.scan_pre.seqs, seq)
              THEN seq_group.seqs[j] = [seq EXCEPT !.status = "WAITING"]
              ELSE seq_group.seqs[j] = seq

\* C33: the hook changes a status only to BLOCKED, for a sequence whose own
\* sample of the step is the sync or promise token, and from BLOCKED to WAITING,
\* for a parent all of whose children are finished; samples without a special
\* token block nothing and spawn nothing, and the unblock scan leaves every
\* sequence that is not a BLOCKED parent as it was.
C33_StatusChangesOnlyTwoWays ==
    /\ LastHookStep => (ScanBlocksOwnSamplerOnly /\ NoSpecialTokenNoEffect)
    /\ LastScan => UnblockChangesReadyParentsOnly

---------------------------------------------------------------------------
(* Merging over several steps, under SpecStep *)

\* The text is one of the lines of the tokens.
HasLine(tokens, text) ==
    \E i \in 1..Len(tokens) :
        LET end == i + Len(text) - 1
        IN  /\ end <= Len(tokens)
            /\ SubSeq(tokens, i, end) = text
            /\ (i = 1 \/ tokens[i - 1] = "\n")
            /\ (end = Len(tokens) \/ tokens[end + 1] = "\n")

\* The append_prompt_tokens calls for the parent of the sequence at c that
\* carried its output text.
AppendsOfChild(group, c) ==
    {m \in 1..Len(group.appended) :
        /\ group.appended[m].seq_id = group.seqs[c].parent_seq_id
        /\ HasLine(group.appended[m].tokens, OutputTextOf(group, group.seqs[c].seq_id))}

\* No other child of the same parent has the same output text, so that an
\* appended line tells whose text it is.
TextTellsChild(group, c) ==
    /\ OutputTextOf(group, group.seqs[c].seq_id) \notin {NoneStr, EmptyStr}
    /\ \A d \in 1..Len(group.seqs) :
          (d # c /\ group.seqs[d].parent_seq_id = group.seqs[c].parent_seq_id)
          => OutputTextOf(group, group.seqs[d].seq_id)
                 # OutputTextOf(group, group.seqs[c].seq_id)

\* C34: over any sequence of hook steps - the parent may block, be unblocked
\* and block again - the output text of a finished child is appended to the
\* prompt of its parent at most once.
C34_ChildTextAppendedOnce ==
    \A c \in 1..Len(seq_group.seqs) :
        (IsFinished(seq_group.seqs[c]) /\ TextTellsChild(seq_group, c))
        => Cardinality(AppendsOfChild(seq_group, c)) <= 1

---------------------------------------------------------------------------
(* Finished sequences, under SpecHook *)

\* C35: FINISHED is terminal for the hook: _handle_sync and _handle_promise
\* leave the status of every sequence that is FINISHED as it is, whatever the
\* samples and the group (_handle_unblock changes BLOCKED sequences only).
C35_FinishedIsTerminal ==
    (LastSync \/ LastPromise) =>
        \A j \in 1..Len(last.pre.seqs) :
            IsFinished(last.pre.seqs[j]) => IsFinished(seq_group.seqs[j])

---------------------------------------------------------------------------
(* The sequence-keyed StreamingToolParser (vllm/engine/output_processor/   *)
(* streaming_tool_parser.py) fed the same batches as the request-keyed one.*)

EquivMaxArgsLen == 2    \* longest accumulated arguments text, two-parser runs
EquivMaxBatch == 2      \* most DeltaToolCalls in one DeltaMessage, two-parser runs

\* _initialize_seq_state
InitializeSeqState(p, seq_id) ==
    [chunks_mapping |-> SetDefault(p.chunks_mapping, seq_id, <<>>),
     tool_states |-> SetDefault(p.tool_states, seq_id, EmptyDict),
     yielded_indices |-> SetDefault(p.yielded_indices, seq_id, {})]

\* The loop of get_tool_calls_from_deltas over delta.tool_calls, from the
\* k-th fragment on; the arguments test is the truth value of the string.
RECURSIVE SeqProcessToolCalls(_, _, _)
SeqProcessToolCalls(acc, tool_calls, k) ==
    IF k > Len(tool_calls) THEN acc
    ELSE LET tool_call == tool_calls[k]
             index == tool_call.index
             ts0 == IF index \notin DOMAIN acc.tool_state
                    THEN Put(acc.tool_state, index, NewToolState)
                    ELSE acc.tool_state
             state == UpdateState(ts0[index], tool_call)
             ts1 == [ts0 EXCEPT ![index] = state]
             arguments_complete == /\ state.brace_count = 0
                                   /\ Len(state.arguments) > 0
                                   /\ "{" \in {state.arguments[c] : c \in 1..Len(state.arguments)}
         IN  SeqProcessToolCalls(
                 IF /\ index \notin acc.yielded_indices
                    /\ state.id # None
                    /\ state.type # None
                    /\ state.function_name # None
                    /\ arguments_complete
                 THEN [tool_state |-> ts1,
                       yielded_indices |-> acc.yielded_indices \cup {index},
                       tool_calls |-> Append(acc.tool_calls,
                           ToolCall(state.id, state.type, state.function_name,
                                    state.arguments))]
                 ELSE [acc EXCEPT !.tool_state = ts1],
                 tool_calls, k + 1)

\* "return tool_calls" without the test on its length: [] where None is due.
SeqGetToolCallsFromDeltasList(p, seq_id, delta) ==
    LET p0 == InitializeSeqState(p, seq_id)
        acc == SeqProcessToolCalls(
                   [tool_state |-> p0.tool_states[seq_id],
                    yielded_indices |-> p0.yielded_indices[seq_id],
                    tool_calls |-> <<>>],
                   delta.tool_calls, 1)
    IN  [parser |-> [p0 EXCEPT !.tool_states[seq_id] = acc.tool_state,
                               !.yielded_indices[seq_id] = acc.yielded_indices],
         result |-> SomeResult(acc.tool_calls)]

\* get_tool_calls_from_deltas(seq_id, delta): the parser after the call and
\* what it returns.
SeqGetToolCallsFromDeltas(p, seq_id, delta) ==
    LET p0 == InitializeSeqState(p, seq_id)
        acc == SeqProcessToolCalls(
                   [tool_state |-> p0.tool_states[seq_id],
                    yielded_indices |-> p0.yielded_indices[seq_id],
                    tool_calls |-> <<>>],
                   delta.tool_calls, 1)
    IN  [parser |-> [p0 EXCEPT !.tool_states[seq_id] = acc.tool_state,
                               !.yielded_indices[seq_id] = acc.yielded_indices],
         result |-> IF Len(acc.tool_calls) > 0 THEN SomeResult(acc.tool_calls)
                    ELSE NoResult]

\* The sequence id that stands for a request id.
SeqIdOf(request_id) == IF request_id = "A" THEN 0 ELSE 1

\* The host hands the same batch to both parsers, under corresponding keys.
IngestBoth(request_id, delta) ==
    LET out == GetToolCallsFromDeltas(Parser, request_id, delta)
        seq_out == SeqGetToolCallsFromDeltas(seq_parser, SeqIdOf(request_id), delta)
    IN  /\ Idle
        /\ delta.tool_calls # <<>>
        /\ SetParser(out.parser)
        /\ seq_parser' = seq_out.parser
        /\ WithinArgsBound(EquivMaxArgsLen)
        /\ last' = [op |-> "both", request_id |-> request_id, delta |-> delta,
                    pre |-> Parser, seq_pre |-> seq_parser,
                    result |-> out.result, seq_result |-> seq_out.result]
        /\ UNCHANGED <<completed, solo, script, seq_group, seq_counter, collector,
                       handoff, request_state, output_processor>>

\* Request A gets fragments of every shape, request B one whole call.
NextEquiv ==
    \/ Idle /\ \E delta \in {DeltaMessage(tcs) :
                               tcs \in Batches(Fragments(0),
                                               Room(Parser, "A", EquivMaxArgsLen),
                                               EquivMaxBatch)} :
                  IngestBoth("A", delta)
    \/ Idle /\ \E delta \in {DeltaMessage(tcs) :
                               tcs \in Batches({f \in WholeFragments(0) :
                                                   f.function.arguments = <<"{", "}">>},
                                               Room(Parser, "B", EquivMaxArgsLen), 1)} :
                  IngestBoth("B", delta)
    \/ Forward

SpecEquiv == Init /\ [][NextEquiv]_vars

(* Properties under SpecEquiv *)

\* The sequence-keyed parser holds for seq_id what the request-keyed one
\* holds for request_id.
SameState(p, request_id, sp, seq_id) ==
    /\ request_id \in DOMAIN p.tool_states <=> seq_id \in DOMAIN sp.tool_states
    /\ request_id \in DOMAIN p.yielded_indices <=> seq_id \in DOMAIN sp.yielded_indices
    /\ request_id \in DOMAIN p.chunks_mapping <=> seq_id \in DOMAIN sp.chunks_mapping
    /\ request_id \in DOMAIN p.tool_states =>
          p.tool_states[request_id] = sp.tool_states[seq_id]
    /\ request_id \in DOMAIN p.yielded_indices =>
          p.yielded_indices[request_id] = sp.yielded_indices[seq_id]
    /\ request_id \in DOMAIN p.chunks_mapping =>
          p.chunks_mapping[request_id] = sp.chunks_mapping[seq_id]

---------------------------------------------------------------------------
(* Properties under SpecCollect: errors *)

\* C38: putting an Exception replaces whatever is pending and sets the
\* event; while an Exception is pending a put of a normal output changes
\* nothing; a get or get_nowait that finds an Exception raises it, returns
\* nothing and leaves the slot empty and the event clear; and nothing is
\* raised unless an Exception was pending.
C38_ErrorPrecedence ==
    /\ (last.op = "put" /\ last.output.kind = "Exception") =>
          /\ collector.output = last.output
          /\ collector.ready
    /\ (last.op = "put" /\ last.output.kind # "Exception"
                        /\ last.pre.output.kind = "Exception") =>
          collector = last.pre
    /\ LastTook =>
          /\ last.raises <=> last.pre.output.kind = "Exception"
          /\ last.raises =>
                /\ last.returns = NoOutput
                /\ collector.output = NoOutput
                /\ ~collector.ready
    /\ (last.op = "get" /\ last.suspended) => last.pre.output.kind # "Exception"

\* The third put was of a normal output while an Exception was pending,
\* and the Exception is still in the slot with the event set.
C38_Witness ==
    /\ last.op = "put"
    /\ last.output.kind = "RequestOutput"
    /\ last.pre.output.kind = "Exception"
    /\ handoff.puts = 3
    /\ collector.output = ExceptionOutput
    /\ collector.ready

---------------------------------------------------------------------------
(* ToolAwareRequestState: the per-request wrapper around the parser.       *)

ToolMaxCalls == 2       \* most ToolCalls kept in accumulated_tool_calls
ToolMaxChunks == 3      \* most chunks recorded between two clear_tool_state calls
ToolMaxTokens == 3      \* most token ids accumulated between two clear_tool_state calls

\* process_engine_output: the wrapper and the parser after the call and what
\* it returns.
ProcessEngineOutput(rs, p, new_token_ids, extraction) ==
    IF ~rs.tool_parser
    THEN [request_state |-> rs, parser |-> p, result |-> NoResult]
    ELSE LET out == ProcessEngineOutputForTools(p, rs.request_id, new_token_ids,
                                                extraction)
             new_tool_calls == out.result
         IN  [request_state |->
                  IF ~new_tool_calls.is_none /\ Len(new_tool_calls.tool_calls) > 0
                  THEN [rs EXCEPT !.accumulated_tool_calls =
                                      @ \o new_tool_calls.tool_calls]
                  ELSE rs,
              parser |-> out.parser,
              result |-> new_tool_calls]

\* get_all_tool_calls: a copy of the list
GetAllToolCalls(rs) == rs.accumulated_tool_calls

\* A clear_tool_state that resets the parser and keeps the list.
ClearToolStateKeepsList(rs, p) ==
    [request_state |-> rs,
     parser |-> IF rs.tool_parser THEN ClearRequestState(p, rs.request_id) ELSE p]

\* clear_tool_state: the parser forgets the request, the list is emptied
ClearToolState(rs, p) ==
    [request_state |-> [rs EXCEPT !.accumulated_tool_calls = <<>>],
     parser |-> IF rs.tool_parser THEN ClearRequestState(p, rs.request_id) ELSE p]

InitToolAware ==
    /\ NoCollector
    /\ NoSequenceGroup
    /\ SetParserInit
    /\ last = NoCall
    /\ completed = NothingCompleted
    /\ solo = EmptyDict
    /\ script = NoScript
    /\ seq_parser = NewSeqParser
    /\ output_processor = NewOutputProcessor
    /\ \E tool_parser \in BOOLEAN : request_state = ToolAwareRequestState("A", tool_parser)

\* The host calls process_engine_output with the output of request A; the
\* ghost keeps the lists returned.
CallProcessEngineOutput(new_token_ids, extraction) ==
    LET out == ProcessEngineOutput(request_state, Parser, new_token_ids, extraction)
    IN  /\ Idle
        /\ SetParser(out.parser)
        /\ \A r \in DOMAIN chunks_mapping' :
              /\ Len(accumulated_token_ids'[r]) <= ToolMaxTokens
              /\ Len(chunks_mapping'[r]) <= ToolMaxChunks
        /\ request_state' = [out.request_state EXCEPT !.returned =
                                 IF out.result.is_none THEN @
                                 ELSE @ \o out.result.tool_calls]
        /\ Len(request_state'.accumulated_tool_calls) <= ToolMaxCalls
        /\ last' = [op |-> "process_engine_output", pre |-> Parser,
                    pre_state |-> request_state, result |-> out.result]
        /\ UNCHANGED <<completed, solo, script, seq_group, seq_counter, collector,
                       handoff, seq_parser, output_processor>>

\* The host calls clear_tool_state; the ghost starts again.
CallClearToolState ==
    LET out == ClearToolState(request_state, Parser)
    IN  /\ Idle
        /\ SetParser(out.parser)
        /\ request_state' = [out.request_state EXCEPT !.returned = <<>>]
        /\ last' = [op |-> "clear_tool_state", pre |-> Parser,
                    pre_state |-> request_state, result |-> NoResult]
        /\ UNCHANGED <<completed, solo, script, seq_group, seq_counter, collector,
                       handoff, seq_parser, output_processor>>

\* The extractor raises TypeError, returns None, or returns a DeltaMessage
\* of at most one fragment.
NextToolAware ==
    \/ Idle /\ \E new_token_ids \in DecTokens,
                   extraction \in {Extraction(TRUE, NoDelta), Extraction(FALSE, NoDelta)}
                                  \cup {Extraction(FALSE, SomeDelta(d)) :
                                           d \in DecDeltas(DecFragments, 1)} :
                  CallProcessEngineOutput(new_token_ids, extraction)
    \/ CallClearToolState
    \/ Forward

SpecToolAware == InitToolAware /\ [][NextToolAware]_vars

(* Properties under SpecToolAware *)

\* C37: get_all_tool_calls returns, in order, the concatenation of the
\* non-none lists process_engine_output has returned since construction or
\* the last clear_tool_state; without a tool parser process_engine_output
\* returns none and nothing is accumulated; clear_tool_state empties the list
\* and resets the parser's state of the request.
C37_AllToolCallsSinceClear ==
    LET all == GetAllToolCalls(request_state)
    IN  /\ all = request_state.returned
        /\ \A i, j \in 1..Len(all) : all[i] = all[j] => i = j
        /\ ~request_state.tool_parser =>
              /\ last.op = "process_engine_output" =>
                    last.result.is_none /\ Parser = last.pre
              /\ all = <<>>
        /\ last.op = "clear_tool_state" =>
              /\ all = <<>>
              /\ NeverTracked(Parser, request_state.request_id)

\* Two tool calls were accumulated and clear_tool_state has just run.
C37_Witness ==
    /\ last.op = "clear_tool_state"
    /\ Len(last.pre_state.accumulated_tool_calls) = 2
    /\ request_state.tool_parser

---------------------------------------------------------------------------
(* OutputProcessor (vllm/v1/engine/output_processor.py): the requests it   *)
(* tracks. Requests have no parent request and no queue, and their output  *)
(* kind is not FINAL_ONLY.                                                 *)

LifeMaxOutputs == 2     \* most EngineCoreOutputs in one process_outputs call

RequestIds == {"A", "B"}
FinishReasons == {"stop", "length"}

\* RequestState.__init__
RequestState(request_id) == [request_id |-> request_id, is_prefilling |-> TRUE]

\* An EngineCoreOutput, with what detokenizer.update returns for it:
\* stop_string is TRUE when the detokenizer finds a stop string.
EngineCoreOutput(request_id, finish_reason, pooling_output, stop_string) ==
    [request_id |-> request_id, finish_reason |-> finish_reason,
     pooling_output |-> pooling_output, stop_string |-> stop_string]

EngineCoreOutputs ==
    {EngineCoreOutput(r, f, p, s) :
        r \in RequestIds, f \in FinishReasons \cup {None}, p \in BOOLEAN, s \in BOOLEAN}

\* EngineCoreOutput.finished: the engine core set a finish reason
Finished(engine_core_output) == engine_core_output.finish_reason # None

\* The lists of up to n EngineCoreOutputs.
RECURSIVE OutputLists(_)
OutputLists(n) ==
    IF n = 0 THEN {<<>>}
    ELSE OutputLists(n - 1) \cup
         {Append(l, e) : l \in {x \in OutputLists(n - 1) : Len(x) = n - 1},
                         e \in EngineCoreOutputs}

\* The finish reason after the stop check of the detokenizer.
FinishReasonAfterDetokenize(engine_core_output) ==
    IF ~engine_core_output.pooling_output /\ engine_core_output.stop_string
    THEN "stop"
    ELSE engine_core_output.finish_reason

\* A loop body that asks for the abort of every request it frees.
ProcessOneAlwaysAborts(acc, engine_core_output) ==
    LET req_id == engine_core_output.request_id
        finish_reason == FinishReasonAfterDetokenize(engine_core_output)
    IN  IF req_id \notin DOMAIN acc.request_states THEN acc
        ELSE [request_states |->
                  IF finish_reason # None THEN Pop(acc.request_states, req_id)
                  ELSE [acc.request_states EXCEPT ![req_id].is_prefilling = FALSE],
              request_outputs |->
                  Append(acc.request_outputs,
                         [request_id |-> req_id, finished |-> finish_reason # None]),
              reqs_to_abort |->
                  IF finish_reason # None
                  THEN Append(acc.reqs_to_abort, req_id)
                  ELSE acc.reqs_to_abort]

\* The body of the loop of process_outputs for one EngineCoreOutput.
ProcessOne(acc, engine_core_output) ==
    LET req_id == engine_core_output.request_id
        finish_reason == FinishReasonAfterDetokenize(engine_core_output)
    IN  IF req_id \notin DOMAIN acc.request_states THEN acc
        ELSE [request_states |->
                  IF finish_reason # None THEN Pop(acc.request_states, req_id)
                  ELSE [acc.request_states EXCEPT ![req_id].is_prefilling = FALSE],
              request_outputs |->
                  Append(acc.request_outputs,
                         [request_id |-> req_id, finished |-> finish_reason # None]),
              reqs_to_abort |->
                  IF finish_reason # None /\ ~Finished(engine_core_output)
                  THEN Append(acc.reqs_to_abort, req_id)
                  ELSE acc.reqs_to_abort]

\* process_outputs: the loop over engine_core_outputs
RECURSIVE ProcessLoop(_, _, _)
ProcessLoop(acc, engine_core_outputs, k) ==
    IF k > Len(engine_core_outputs) THEN acc
    ELSE ProcessLoop(ProcessOne(acc, engine_core_outputs[k]), engine_core_outputs, k + 1)

OutputProcessorProcessOutputs(op, engine_core_outputs) ==
    ProcessLoop([request_states |-> op.request_states,
                 request_outputs |-> <<>>, reqs_to_abort |-> <<>>],
                engine_core_outputs, 1)

\* add_request: ValueError for an id that is running
OutputProcessorAddRequest(op, request_id) ==
    IF request_id \in DOMAIN op.request_states
    THEN [output_processor |-> op, raises |-> TRUE]
    ELSE [output_processor |->
              [op EXCEPT !.request_states = Put(@, request_id, RequestState(request_id))],
          raises |-> FALSE]

\* abort_requests of one id
OutputProcessorAbortRequests(op, request_id) ==
    IF request_id \in DOMAIN op.request_states
    THEN [output_processor |-> [op EXCEPT !.request_states = Pop(@, request_id)],
          request_ids_to_abort |-> <<request_id>>]
    ELSE [output_processor |-> op, request_ids_to_abort |-> <<>>]

life_vars == <<chunks_mapping, tool_states, yielded_indices, accumulated_text,
               accumulated_token_ids, completed, solo, script, seq_group, seq_counter,
               collector, handoff, seq_parser, request_state>>

InitLife ==
    /\ NoCollector
    /\ NoSequenceGroup
    /\ SetParserInit
    /\ last = NoCall
    /\ NewEngineObjects
    /\ completed = NothingCompleted
    /\ solo = EmptyDict
    /\ script = NoScript

CallAddRequest(request_id) ==
    LET out == OutputProcessorAddRequest(output_processor, request_id)
    IN  /\ Idle
        /\ output_processor' = out.output_processor
        /\ last' = [op |-> "add_request", request_id |-> request_id,
                    pre |-> output_processor, raises |-> out.raises]
        /\ UNCHANGED life_vars

CallAbortRequests(request_id) ==
    LET out == OutputProcessorAbortRequests(output_processor, request_id)
    IN  /\ Idle
        /\ output_processor' = out.output_processor
        /\ last' = [op |-> "abort_requests", request_id |-> request_id,
                    pre |-> output_processor,
                    request_ids_to_abort |-> out.request_ids_to_abort]
        /\ UNCHANGED life_vars

CallOutputProcessorProcessOutputs(engine_core_outputs) ==
    LET out == OutputProcessorProcessOutputs(output_processor, engine_core_outputs)
    IN  /\ Idle
        /\ output_processor' = [output_processor EXCEPT
                                    !.request_states = out.request_states]
        /\ last' = [op |-> "process_outputs",
                    engine_core_outputs |-> engine_core_outputs,
                    pre |-> output_processor,
                    request_outputs |-> out.request_outputs,
                    reqs_to_abort |-> out.reqs_to_abort]
        /\ UNCHANGED life_vars

NextLife ==
    \/ \E request_id \in RequestIds : CallAddRequest(request_id)
    \/ \E request_id \in RequestIds : CallAbortRequests(request_id)
    \/ Idle /\ \E engine_core_outputs \in OutputLists(LifeMaxOutputs) :
                  CallOutputProcessorProcessOutputs(engine_core_outputs)
    \/ Forward

SpecLife == InitLife /\ [][NextLife]_vars

(* Properties under SpecLife *)

\* The finish reason of an output is set: by the engine core, or by a stop
\* string found in a non-pooling output.
FinishReasonSet(e) == e.finish_reason # None \/ (~e.pooling_output /\ e.stop_string)

\* The positions of the outputs of request r that finish it.
FinishingAt(outputs, r) ==
    {k \in 1..Len(outputs) : outputs[k].request_id = r /\ FinishReasonSet(outputs[k])}

FirstOf(s) == CHOOSE k \in s : \A j \in s : k <= j

\* C39: process_outputs stops tracking a request exactly when one of the
\* outputs of the call sets its finish reason (engine core, or stop string
\* of the detokenizer); the id is in reqs_to_abort, once, exactly when the
\* first such output was not marked finished by the engine core; a request
\* without such an output stays tracked; and an output for an id that is
\* not tracked (never added, aborted, or freed earlier in the same call)
\* changes nothing and produces nothing.
C39_RequestLifecycle ==
    last.op = "process_outputs" =>
        LET outputs == last.engine_core_outputs
            before == DOMAIN last.pre.request_states
            after == DOMAIN output_processor.request_states
        IN  /\ after \subseteq before
            /\ \A r \in before :
                  LET at == FinishingAt(outputs, r)
                  IN  /\ r \notin after <=> at # {}
                      /\ Occurrences(last.reqs_to_abort, r) =
                            IF at # {} /\ ~Finished(outputs[FirstOf(at)]) THEN 1 ELSE 0
                      /\ Cardinality({k \in 1..Len(last.request_outputs) :
                                         last.request_outputs[k].request_id = r})
                            = Cardinality({k \in 1..Len(outputs) :
                                             /\ outputs[k].request_id = r
                                             /\ at # {} => k <= FirstOf(at)})
            /\ \A r \in RequestIds \ before :
                  /\ Occurrences(last.reqs_to_abort, r) = 0
                  /\ \A k \in 1..Len(last.request_outputs) :
                        last.request_outputs[k].request_id # r
            /\ (\A k \in 1..Len(outputs) : outputs[k].request_id \notin before) =>
                  /\ output_processor = last.pre
                  /\ last.request_outputs = <<>>
                  /\ last.reqs_to_abort = <<>>

\* A and B were tracked; the detokenizer found a stop string in an output
\* of A the engine core had not finished, and a second output of A came in
\* the same call: A is freed and to be aborted, B is still tracked, and the
\* second output produced nothing.
C39_Witness ==
    /\ last.op = "process_outputs"
    /\ DOMAIN last.pre.request_states = {"A", "B"}
    /\ Len(last.engine_core_outputs) = 2
    /\ last.engine_core_outputs[1] = EngineCoreOutput("A", None, FALSE, TRUE)
    /\ last.engine_core_outputs[2].request_id = "A"
    /\ DOMAIN output_processor.request_states = {"B"}
    /\ last.reqs_to_abort = <<"A">>
    /\ Len(last.request_outputs) = 1

====
